---- MODULE Spec2Model ----
(***************************************************************************)
(* Verification model of the VeriRisk backend: the risk-history store, the *)
(* alert engine (services/risk_evaluator.py), the job guards of the        *)
(* scheduler (scheduler.py) and the hourly snapshot collector              *)
(* (jobs/hourly_snapshot.py).                                              *)
(*                                                                         *)
(* Time is a discrete clock `now`; one hour is TicksPerHour ticks.  Risk   *)
(* scores are modelled as whole percentage points.  A risk_history row's   *)
(* timestamp (datetime.utcnow() at insertion) is modelled by the row's     *)
(* position in the table: later rows have later timestamps.                *)
(***************************************************************************)
EXTENDS Integers, Sequences, FiniteSets, TLC

\* ------------------------------------------------------------------ bounds
TicksPerHour == 2
MaxTime == 3
MaxHist == 3
MaxConcHist == 2
MaxRequests == 2
MaxConcTime == 1
MaxCollectRuns == 3
MaxSeedHours == 2

\* ------------------------------------------------------------ input sets
Pools == {"p1", "p2"}
PoolOrder == <<"p1", "p2">>
None == -1
\* outcomes of model_server.predict_risk that are not error payloads:
\* <<risk_score, early_warning_score>>
Outcomes == { <<10, 50>>, <<34, None>>, <<40, 50>>, <<64, 30>>, <<65, 40>>, <<75, 50>> }
Error == <<None, None>>
\* the metrics one protocol fetch can deliver
SnapshotValues ==
    { [tvl |-> 100, volume_24h |-> 10, reserve0 |-> 60, reserve1 |-> 40, data_source |-> "defillama"],
      [tvl |-> 80, volume_24h |-> 30, reserve0 |-> 30, reserve1 |-> 50, data_source |-> "synthetic"] }
\* the outcomes drawn while requests interleave
ConcOutcomes == { <<40, 50>>, <<75, 50>> }

\* the pools whose alert evaluation fails in one cycle: none, or one
FailingPools == { {} } \cup { {p} : p \in Pools }

Threads == {"t1", "t2"}

VARIABLES
    now,            \* the clock, in ticks
    snapshots,      \* pool ids that have a row in the snapshots table
    risk_history,   \* the risk_history table, in timestamp order
    alerts,         \* the alerts table, in insertion order
    last,           \* the last completed sequential call (history variable)
    req,            \* the request/job each thread is executing
    started,        \* number of requests and jobs started so far
    snapshot_history, \* the snapshot_history table, in insertion order
    locks,          \* the fetch_lock objects: TRUE when held
    job,            \* the collection run each thread is executing
    committed,      \* the last committed write to snapshot_history (history variable)
    snapshot_features, \* metrics and features of the latest snapshots row of each pool
    sim,            \* the POST /risk/simulate request each thread is executing
    tvl_series,     \* the tvl column of the snapshots rows of each pool, in timestamp order
    _init_status,   \* routers/protocols.py _init_status
    background_tasks, \* the POST /protocols/initialize and /train-model requests and their tasks
    gen,            \* the locals of one generate_predictive_synthetic_data call
    chain           \* the risk_submissions table and the locals of compute_and_submit_risks

vars == <<now, snapshots, risk_history, alerts, last, req, started,
          snapshot_history, locks, job, committed, snapshot_features, sim,
          tvl_series, _init_status, background_tasks, gen, chain>>
collectvars == <<snapshot_history, locks, job, committed>>
scoringvars == <<risk_history, alerts, last, req>>
simvars == <<snapshot_features, sim>>
trainvars == <<tvl_series>>
initvars == <<_init_status, background_tasks>>
latevars == <<gen, chain>>
extvars == <<trainvars, initvars, latevars>>

\* --------------------------------------------------------- db_models/alert
HIGH_RISK_ALERT == "HIGH_RISK_ALERT"
EARLY_WARNING_ALERT == "EARLY_WARNING_ALERT"
RISK_ESCALATION_ALERT == "RISK_ESCALATION_ALERT"
RISK_SPIKE == "RISK_SPIKE_ALERT"
AlertType == {HIGH_RISK_ALERT, EARLY_WARNING_ALERT, RISK_ESCALATION_ALERT, RISK_SPIKE}

ALERT_THRESHOLDS ==
    [ high_risk_score |-> 65,
      early_warning_score |-> 40,
      escalation_transitions |-> { <<"LOW", "MEDIUM">>, <<"LOW", "HIGH">>, <<"MEDIUM", "HIGH">> },
      risk_spike_delta |-> 30 ]

\* ------------------------------------------------------------ model_server
get_risk_level(score) ==
    IF score < 30 THEN "LOW" ELSE IF score < 65 THEN "MEDIUM" ELSE "HIGH"

\* the result dict of predict_risk for a non-error outcome
PredictResult(p, o) ==
    [ pool_id |-> p,
      risk_score |-> o[1],
      risk_level |-> get_risk_level(o[1]),
      early_warning_score |-> IF o[2] # None /\ o[2] # 0 THEN o[2] ELSE None ]

\* ---------------------------------------------------------- risk_evaluator
\* indices of the risk_history rows of pool p, in timestamp order
PoolRows(h, p) == { i \in 1..Len(h) : h[i].pool_id = p }

MaxOf(S) == CHOOSE x \in S : \A y \in S : y <= x

\* order_by(desc(timestamp)).first(): index of the latest row, 0 when none
LatestRow(h, p) ==
    IF PoolRows(h, p) = {} THEN 0 ELSE MaxOf(PoolRows(h, p))

\* order_by(desc(timestamp)).limit(2): records[1] when two rows exist
get_previous_risk(h, p) ==
    LET rows == PoolRows(h, p)
    IN IF Cardinality(rows) >= 2 THEN MaxOf(rows \ {MaxOf(rows)}) ELSE 0

\* mutant: the window boundary excluded (created_at > cutoff)
has_recent_alert_strict(al, p, ty, t) ==
    LET cutoff == t - TicksPerHour
    IN \E i \in 1..Len(al) :
          /\ al[i].pool_id = p
          /\ al[i].alert_type = ty
          /\ al[i].status = "active"
          /\ al[i].created_at > cutoff

\* mutant: suppression that never expires
has_recent_alert_forever(al, p, ty, t) ==
    \E i \in 1..Len(al) :
          /\ al[i].pool_id = p
          /\ al[i].alert_type = ty
          /\ al[i].status = "active"

\* mutant: the status filter left out
has_recent_alert_any_status(al, p, ty, t) ==
    LET cutoff == t - TicksPerHour
    IN \E i \in 1..Len(al) :
          /\ al[i].pool_id = p
          /\ al[i].alert_type = ty
          /\ al[i].created_at >= cutoff

has_recent_alert(al, p, ty, t) ==
    LET cutoff == t - TicksPerHour
    IN \E i \in 1..Len(al) :
          /\ al[i].pool_id = p
          /\ al[i].alert_type = ty
          /\ al[i].status = "active"
          /\ al[i].created_at >= cutoff

create_alert(p, ty, cur, prevLevel, prevScore, t) ==
    [ pool_id |-> p,
      alert_type |-> ty,
      risk_score |-> cur.risk_score,
      risk_level |-> cur.risk_level,
      status |-> "active",
      previous_risk_level |-> prevLevel,
      previous_risk_score |-> prevScore,
      created_at |-> t ]

\* mutant: the threshold itself does not count as high risk
HighRiskCond_strict(cur) ==
    cur.risk_score > ALERT_THRESHOLDS.high_risk_score

\* rule 1
HighRiskCond(cur) ==
    cur.risk_score >= ALERT_THRESHOLDS.high_risk_score

\* mutant: the early-warning score alone decides (no risk_score floor)
EarlyWarningCond_no_floor(cur) ==
    /\ cur.early_warning_score # None
    /\ cur.early_warning_score # 0
    /\ cur.early_warning_score >= ALERT_THRESHOLDS.early_warning_score

\* rule 2
EarlyWarningCond(cur) ==
    /\ cur.early_warning_score # None
    /\ cur.early_warning_score # 0
    /\ cur.early_warning_score >= ALERT_THRESHOLDS.early_warning_score
    /\ cur.risk_score >= 20

\* mutant: the transition tuple built the wrong way round
EscalationCond_reversed(h, cur, prev) ==
    /\ prev # 0
    /\ <<cur.risk_level, h[prev].risk_level>> \in ALERT_THRESHOLDS.escalation_transitions

\* rule 3 (prev is a row index of h, 0 for no previous record)
EscalationCond(h, cur, prev) ==
    /\ prev # 0
    /\ <<h[prev].risk_level, cur.risk_level>> \in ALERT_THRESHOLDS.escalation_transitions

\* mutant: any score movement of the threshold size counts as a spike
SpikeCond_abs(h, cur, prev) ==
    /\ prev # 0
    /\ \/ cur.risk_score - h[prev].risk_score >= ALERT_THRESHOLDS.risk_spike_delta
       \/ h[prev].risk_score - cur.risk_score >= ALERT_THRESHOLDS.risk_spike_delta

\* rule 4
SpikeCond(h, cur, prev) ==
    /\ prev # 0
    /\ cur.risk_score - h[prev].risk_score >= ALERT_THRESHOLDS.risk_spike_delta

RuleCond(ty, h, cur, prev) ==
    CASE ty = HIGH_RISK_ALERT -> HighRiskCond(cur)
      [] ty = EARLY_WARNING_ALERT -> EarlyWarningCond(cur)
      [] ty = RISK_ESCALATION_ALERT -> EscalationCond(h, cur, prev)
      [] ty = RISK_SPIKE -> SpikeCond(h, cur, prev)

\* the alert a rule creates: escalation and spike carry the previous record
RuleAlert(ty, p, h, cur, prev, t) ==
    IF ty \in {RISK_ESCALATION_ALERT, RISK_SPIKE}
    THEN create_alert(p, ty, cur, h[prev].risk_level, h[prev].risk_score, t)
    ELSE create_alert(p, ty, cur, "", None, t)

\* one rule of evaluate_alerts_for_pool: condition, dedup check, create
ApplyRule(al, ty, p, h, cur, prev, t) ==
    IF RuleCond(ty, h, cur, prev) /\ ~has_recent_alert(al, p, ty, t)
    THEN Append(al, RuleAlert(ty, p, h, cur, prev, t))
    ELSE al

\* mutant: rule 4 written as an elif of rule 3
evaluate_alerts_for_pool_elif(al, h, p, cur, t) ==
    LET previous == get_previous_risk(h, p)
        a1 == ApplyRule(al, HIGH_RISK_ALERT, p, h, cur, previous, t)
        a2 == ApplyRule(a1, EARLY_WARNING_ALERT, p, h, cur, previous, t)
        a3 == ApplyRule(a2, RISK_ESCALATION_ALERT, p, h, cur, previous, t)
        a4 == IF EscalationCond(h, cur, previous) THEN a3
              ELSE ApplyRule(a3, RISK_SPIKE, p, h, cur, previous, t)
    IN a4

evaluate_alerts_for_pool(al, h, p, cur, t) ==
    LET previous == get_previous_risk(h, p)
        a1 == ApplyRule(al, HIGH_RISK_ALERT, p, h, cur, previous, t)
        a2 == ApplyRule(a1, EARLY_WARNING_ALERT, p, h, cur, previous, t)
        a3 == ApplyRule(a2, RISK_ESCALATION_ALERT, p, h, cur, previous, t)
        a4 == ApplyRule(a3, RISK_SPIKE, p, h, cur, previous, t)
    IN a4

\* current_risk dict built from the latest row
CurrentOf(h, i) ==
    [ pool_id |-> h[i].pool_id,
      risk_score |-> h[i].risk_score,
      risk_level |-> h[i].risk_level,
      early_warning_score |-> h[i].early_warning_score ]

\* the loop of evaluate_all_alerts.  bad is the set of pools for which a
\* database call of evaluate_alerts_for_pool raises: the loop has no except
\* clause (only finally: db.close()), so the exception leaves the function
RECURSIVE EvaluatePools(_, _, _, _, _)
EvaluatePools(al, h, ps, t, bad) ==
    IF ps = <<>> THEN al
    ELSE LET p == Head(ps)
             latest == LatestRow(h, p)
         IN IF latest # 0 /\ p \in bad THEN al
            ELSE EvaluatePools(IF latest # 0
                               THEN evaluate_alerts_for_pool(al, h, p, CurrentOf(h, latest), t)
                               ELSE al,
                               h, Tail(ps), t, bad)

evaluate_all_alerts(al, h, t, bad) == EvaluatePools(al, h, PoolOrder, t, bad)

\* the pools whose evaluate_alerts_for_pool call returned
RECURSIVE EvaluatedPools(_, _, _)
EvaluatedPools(h, ps, bad) ==
    IF ps = <<>> THEN {}
    ELSE IF LatestRow(h, Head(ps)) = 0 THEN EvaluatedPools(h, Tail(ps), bad)
    ELSE IF Head(ps) \in bad THEN {}
    ELSE {Head(ps)} \cup EvaluatedPools(h, Tail(ps), bad)

\* mutant: a row is stored whatever predict_risk returned
predict_and_store_risk_always(h, p, o) ==
    Append(h, PredictResult(p, o))

\* mutant: one row per pool, overwritten by each new assessment
predict_and_store_risk_upsert(h, p, o) ==
    IF o = Error THEN h
    ELSE IF LatestRow(h, p) # 0 THEN [h EXCEPT ![LatestRow(h, p)] = PredictResult(p, o)]
    ELSE Append(h, PredictResult(p, o))

\* predict_and_store_risk: one row appended, unless predict_risk returned an
\* error payload or an exception was raised (Error stands for both: the
\* function logs and returns None)
predict_and_store_risk(h, p, o) ==
    IF o = Error THEN h ELSE Append(h, PredictResult(p, o))

RECURSIVE PredictPools(_, _, _, _)
PredictPools(h, ps, snaps, out) ==
    IF ps = <<>> THEN h
    ELSE LET p == Head(ps)
             h2 == IF p \in snaps THEN predict_and_store_risk(h, p, out[p]) ELSE h
         IN PredictPools(h2, Tail(ps), snaps, out)

predict_all_pools(h, snaps, out) == PredictPools(h, PoolOrder, snaps, out)

\* what predict_all_pools returns: the results that are not None, as pool ids
predict_all_results(snaps, out) ==
    SelectSeq(PoolOrder, LAMBDA p : p \in snaps /\ out[p] # Error)

\* the record of a completed call (history variable last)
Call(op, evaluated, nalerts, nrows) ==
    [ op |-> op, evaluated |-> evaluated, alerts_before |-> nalerts,
      hist_before |-> nrows, failed |-> {}, results |-> <<>>, eval_failing |-> {} ]

\* a thread that is executing nothing
Idle == [pc |-> "idle", kind |-> "none", pool |-> "", cur |-> 0, prev |-> 0,
         rule |-> 0, todo |-> <<>>]

\* ---------------------------------------------------- collection: state
\* RiskScheduler.fetch_lock, and the fetch_lock of each HourlySnapshotCollector
\* instance: the scheduler's hourly_collector and the collector of
\* routers/timeseries.py
SCHEDULER_FETCH_LOCK == "scheduler.fetch_lock"
Collectors == {"scheduler.hourly_collector", "timeseries.collector"}
LockNames == {SCHEDULER_FETCH_LOCK} \cup Collectors

\* a thread that runs no collection; result is what its last run returned
JobIdle(result) ==
    [pc |-> "idle", kind |-> "none", lock |-> "", hour |-> 0, batch |-> <<>>,
     i |-> 0, inserts |-> <<>>, updates |-> <<>>, stored |-> <<>>, result |-> result]

\* ------------------------------------------------------ what-if simulation
\* services/simulation_service.py and POST /risk/simulate.  Units: override
\* percentages are whole percent; ratios (tvl_change_*, tvl_acceleration,
\* volume_spike_ratio, reserve_imbalance*, volatility_*) are thousandths;
\* early_warning_score and the returned risk scores are hundredths of a point;
\* the Scorer's probability times 100 is in thousandths of a point.
Min(a, b) == IF a <= b THEN a ELSE b
Max(a, b) == IF a >= b THEN a ELSE b
Abs(a) == IF a < 0 THEN 0 - a ELSE a

\* round(x, 2): thousandths of a point to hundredths, half to even
Round2(x) ==
    IF x % 10 > 5 \/ (x % 10 = 5 /\ (x \div 10) % 2 = 1)
    THEN (x \div 10) + 1 ELSE x \div 10

\* a score in hundredths compared with the whole-point thresholds of
\* get_risk_level: for an integer n, c / 100 < n exactly when c \div 100 < n
WholePoints(c) == c \div 100

\* mutant: the request model without its ge/le bounds
SimulationRequest_unbounded(q) == TRUE

\* routers/risk.py SimulationRequest: the Field(ge=, le=) constraints
SimulationRequest(q) ==
    /\ q.tvl_change_pct >= -80 /\ q.tvl_change_pct <= 80
    /\ q.volume_change_pct >= -100 /\ q.volume_change_pct <= 200
    /\ q.volatility_override # None =>
          (q.volatility_override >= 10 /\ q.volatility_override <= 500)
    /\ q.reserve_imbalance_override # None =>
          (q.reserve_imbalance_override >= 0 /\ q.reserve_imbalance_override <= 1000)

\* get_latest_features: base_metrics and features of the latest snapshot
get_latest_features(store, p) ==
    [ base_metrics |-> [tvl |-> store[p].tvl, volume_24h |-> store[p].volume_24h,
                        reserve0 |-> store[p].reserve0, reserve1 |-> store[p].reserve1],
      features |-> store[p].features ]

\* apply_overrides, "Apply TVL change"
OverrideTvl(d, tvl_pct) ==
    IF tvl_pct = 0 THEN d
    ELSE [ base_metrics |->
             [d.base_metrics EXCEPT !.tvl = Max(0, (@ * (100 + tvl_pct)) \div 100)],
           features |->
             IF tvl_pct < -20
             THEN [d.features EXCEPT
                     !.tvl_change_6h = tvl_pct * 10,
                     !.tvl_change_24h = Min(@, tvl_pct * 8),
                     !.tvl_acceleration = tvl_pct * 5,
                     !.early_warning_score = Min(10000, @ + Min(5000, Abs(tvl_pct) * 100))]
             ELSE [d.features EXCEPT !.tvl_change_6h = tvl_pct * 10] ]

\* apply_overrides, "Apply volume change"
OverrideVolume(d, vol_pct) ==
    IF vol_pct = 0 THEN d
    ELSE [ base_metrics |->
             [d.base_metrics EXCEPT !.volume_24h = Max(0, (@ * (100 + vol_pct)) \div 100)],
           features |->
             [d.features EXCEPT
                !.volume_spike_ratio = Min(10000, Max(100, (@ * (100 + vol_pct)) \div 100)),
                !.early_warning_score =
                    IF vol_pct > 100 THEN Min(10000, @ + Min(3000, vol_pct * 10)) ELSE @] ]

\* the override clamped by apply_overrides: max(lo, min(hi, v))
Clamp(lo, hi, v) == Max(lo, Min(hi, v))

\* apply_overrides, "Apply volatility override"
OverrideVolatility(d, v) ==
    IF v = None THEN d
    ELSE [ d EXCEPT !.features =
             [@ EXCEPT
                !.volatility_6h = Clamp(10, 500, v),
                !.volatility_24h = (Clamp(10, 500, v) * 8) \div 10,
                !.volatility_ratio =
                    IF (Clamp(10, 500, v) * 8) \div 10 > 1
                    THEN (Clamp(10, 500, v) * 1000) \div ((Clamp(10, 500, v) * 8) \div 10)
                    ELSE @,
                !.early_warning_score =
                    IF Clamp(10, 500, v) > 150
                    THEN Min(10000, @ + Min(2500, (Clamp(10, 500, v) - 150) * 20))
                    ELSE @] ]

\* apply_overrides, "Apply reserve imbalance override"
OverrideImbalance(d, r) ==
    IF r = None THEN d
    ELSE [ d EXCEPT !.features =
             [@ EXCEPT
                !.reserve_imbalance = Clamp(0, 1000, r),
                !.reserve_imbalance_rate = Clamp(0, 1000, r) - d.features.reserve_imbalance,
                !.early_warning_score =
                    IF Clamp(0, 1000, r) > 300
                    THEN Min(10000, @ + Min(2000, (Clamp(0, 1000, r) - 300) * 5))
                    ELSE @] ]

\* apply_overrides, "Ensure all features are bounded"
BoundFeatures(d) ==
    [ d EXCEPT !.features =
        [@ EXCEPT
           !.tvl_change_6h = Clamp(-1000, 1000, @),
           !.tvl_change_24h = Clamp(-1000, 1000, @),
           !.tvl_acceleration = Clamp(-500, 500, @),
           !.reserve_imbalance = Clamp(0, 1000, @),
           !.early_warning_score = Clamp(0, 10000, @)] ]

\* mutant: the early-warning boosts of the overrides added without their
\* min(100, ...) caps and without the final bounding
apply_overrides_unclamped(base, q) ==
    [ base_metrics |-> base.base_metrics,
      features |->
        [ base.features EXCEPT
            !.early_warning_score =
                @ + (IF q.tvl_change_pct < -20
                     THEN Min(5000, Abs(q.tvl_change_pct) * 100) ELSE 0)
                  + (IF q.volume_change_pct > 100
                     THEN Min(3000, q.volume_change_pct * 10) ELSE 0)
                  + (IF q.volatility_override # None /\ q.volatility_override > 150
                     THEN Min(2500, (q.volatility_override - 150) * 20) ELSE 0)
                  + (IF q.reserve_imbalance_override # None
                        /\ q.reserve_imbalance_override > 300
                     THEN Min(2000, (q.reserve_imbalance_override - 300) * 5) ELSE 0) ] ]

\* apply_overrides: the simulated dict it returns
apply_overrides(base, q) ==
    BoundFeatures(
      OverrideImbalance(
        OverrideVolatility(
          OverrideVolume(
            OverrideTvl([base_metrics |-> base.base_metrics, features |-> base.features],
                        q.tvl_change_pct),
            q.volume_change_pct),
          q.volatility_override),
        q.reserve_imbalance_override))

\* mutant: apply_overrides writing into the dicts it was given
base_after_overrides_aliased(base, simulated) ==
    [base EXCEPT !.base_metrics = simulated.base_metrics,
                 !.features = simulated.features]

\* the caller's base_features after apply_overrides: the function works on
\* dict(...) copies of base_metrics and features, so the original is as it was
base_after_overrides(base, simulated) == base

\* predict_with_features, "Boost for severe TVL decline"
DeclineBoost(f, score) ==
    IF f.tvl_change_6h < -200 \/ f.tvl_change_24h < -500
    THEN Max(score, 65000 + Min(30000, Abs(Min(f.tvl_change_6h, f.tvl_change_24h)) * 40))
    ELSE score

\* predict_with_features, "Boost for accelerating decline"
AccelBoost(f, score) ==
    IF f.tvl_acceleration < -50 /\ (f.tvl_change_6h < -100 \/ f.tvl_change_24h < -200)
    THEN Min(100000, score + Min(20000, Abs(f.tvl_acceleration) * 200))
    ELSE score

\* predict_with_features, "Boost for high early warning score"
EwsBoost(f, score) ==
    IF f.early_warning_score > 7000
    THEN Max(score, 65000 + (f.early_warning_score - 7000) * 8)
    ELSE score

\* the boosts of predict_with_features over the raw score ml (thousandths)
BoostedScore(f, ml) == EwsBoost(f, AccelBoost(f, DeclineBoost(f, ml)))

\* mutant: the level bands with their lower edges excluded
SimLevel_inclusive(risk_score) ==
    IF risk_score <= 3000 THEN "LOW" ELSE IF risk_score <= 6500 THEN "MEDIUM" ELSE "HIGH"

\* the level predict_with_features derives from its score (hundredths)
SimLevel(risk_score) ==
    IF risk_score < 3000 THEN "LOW" ELSE IF risk_score < 6500 THEN "MEDIUM" ELSE "HIGH"

\* mutant: the raw probability only, as predict_risk scores
predict_with_features_unboosted(f, prob) ==
    [ risk_score |-> Round2(Clamp(0, 100000, prob)),
      risk_level |-> SimLevel(Round2(Clamp(0, 100000, prob))),
      ml_probability |-> Round2(prob) ]

\* predict_with_features: prob is predict_proba(...)[0][1] * 100
predict_with_features(f, prob) ==
    [ risk_score |-> Round2(Clamp(0, 100000, BoostedScore(f, prob))),
      risk_level |-> SimLevel(Round2(Clamp(0, 100000, BoostedScore(f, prob)))),
      ml_probability |-> Round2(prob) ]

\* model_server.predict_risk for the same probability
predict_risk(prob) ==
    [ risk_score |-> Round2(prob),
      risk_level |-> get_risk_level(WholePoints(Round2(prob))) ]

\* ------------------------------------------------ simulation: inputs, state
MaxSimRequests == 2
MaxSimHist == 1

\* predict_proba(...)[0][1] * 100, in thousandths of a point
Probs == { 20000, 29996, 90000 }
\* the probability of the pool's live assessment (a pool scoring 20)
ActualProbs == { 20000 }
ScorerError == None

FeatureSets ==
    { [ tvl_change_6h |-> 0, tvl_change_24h |-> 0, tvl_acceleration |-> 0,
        volume_spike_ratio |-> 1000, reserve_imbalance |-> 100,
        reserve_imbalance_rate |-> 0, volatility_6h |-> 20, volatility_24h |-> 20,
        volatility_ratio |-> 1000, early_warning_score |-> 2000 ],
      [ tvl_change_6h |-> -120, tvl_change_24h |-> -250, tvl_acceleration |-> -60,
        volume_spike_ratio |-> 2000, reserve_imbalance |-> 400,
        reserve_imbalance_rate |-> 50, volatility_6h |-> 100, volatility_24h |-> 80,
        volatility_ratio |-> 1250, early_warning_score |-> 6000 ] }

\* a snapshots row: raw metrics and the features JSON
SnapshotRows ==
    { [tvl |-> 100, volume_24h |-> 10, reserve0 |-> 60, reserve1 |-> 40, features |-> f] :
        f \in FeatureSets }

NoSnapshot ==
    [ tvl |-> 0, volume_24h |-> 0, reserve0 |-> 0, reserve1 |-> 0,
      features |-> [ tvl_change_6h |-> 0, tvl_change_24h |-> 0, tvl_acceleration |-> 0,
                     volume_spike_ratio |-> 0, reserve_imbalance |-> 0,
                     reserve_imbalance_rate |-> 0, volatility_6h |-> 0,
                     volatility_24h |-> 0, volatility_ratio |-> 0,
                     early_warning_score |-> 0 ] ]

Overrides(a, b, c, d) ==
    [ tvl_change_pct |-> a, volume_change_pct |-> b,
      volatility_override |-> c, reserve_imbalance_override |-> d ]

\* request bodies inside the documented bounds ...
ValidRequests ==
    { Overrides(0, 0, None, None), Overrides(-50, 100, None, None),
      Overrides(-21, 0, None, None),
      Overrides(0, 150, 300, 500) }
\* ... and with one override outside them
InvalidRequests ==
    { Overrides(-90, 0, None, None), Overrides(0, 250, None, None),
      Overrides(0, 0, 600, None), Overrides(0, 0, 5, None),
      Overrides(0, 0, None, 1200) }
Requests == ValidRequests \cup InvalidRequests

NoPrediction == [risk_score |-> 0, risk_level |-> ""]
NoBase == get_latest_features([p \in Pools |-> NoSnapshot], PoolOrder[1])

\* a thread that serves no simulation request
SimIdle ==
    [ pc |-> "idle", pool |-> "", params |-> Overrides(0, 0, None, None),
      base |-> NoBase, actual |-> NoPrediction, simulated |-> NoBase,
      prob |-> 0, status |-> 0,
      result |-> [risk_score |-> 0, risk_level |-> "", ml_probability |-> 0], delta |-> 0,
      alert_would_trigger |-> FALSE ]

\* ------------------------------------------- data_fetcher.py: the generator
NumSamples == 30

\* before generate_predictive_synthetic_data is called
GenIdle ==
    [pc |-> "idle", force_current_risk_state |-> FALSE, i |-> 0,
     regime |-> "normal", regime_duration |-> 0,
     forced_crash_start |-> None, forced_crash_end_protection |-> None,
     final_regime |-> "unknown"]

\* ------------------------------------------- submit_to_chain.py: the locals
\* before compute_and_submit_risks is called
ChainIdle ==
    [pc |-> "idle", pool_ids |-> <<>>, i |-> 1, submitted |-> 0,
     risk_submissions |-> <<>>, returned |-> {}, raised |-> {}, runs |-> 0]

\* -------------------------------------------------------------------- Init
Init ==
    /\ now = 0
    /\ snapshots = {}
    /\ risk_history = <<>>
    /\ alerts = <<>>
    /\ last = Call("init", {}, 0, 0)
    /\ req = [t \in Threads |-> Idle]
    /\ started = 0
    /\ snapshot_history = <<>>
    /\ locks = [l \in LockNames |-> FALSE]
    /\ job = [t \in Threads |-> JobIdle("none")]
    /\ committed = [kind |-> "none", hour |-> 0, batch |-> <<>>, replaced |-> {}]
    /\ snapshot_features = [p \in Pools |-> NoSnapshot]
    /\ sim = [t \in Threads |-> SimIdle]
    /\ tvl_series = [p \in Pools |-> <<>>]
    /\ _init_status = [running |-> FALSE, error |-> FALSE, completed |-> FALSE]
    /\ background_tasks = <<>>
    /\ gen = GenIdle
    /\ chain = ChainIdle

\* ------------------------------------------------- sequential alert engine
Tick ==
    /\ now < MaxTime
    /\ now' = now + 1
    /\ last' = Call("tick", {}, Len(alerts), Len(risk_history))
    /\ UNCHANGED <<snapshots, risk_history, alerts, req, started, collectvars, simvars, extvars>>

\* data_fetcher.fetch_all_protocols: a Snapshot row per protocol
FetchAllProtocols ==
    /\ snapshots' = Pools
    /\ last' = Call("fetch", {}, Len(alerts), Len(risk_history))
    /\ UNCHANGED <<now, risk_history, alerts, req, started, collectvars, simvars, extvars>>

\* POST /risk/predict/{pool_id}
trigger_prediction(p, o) ==
    /\ Len(risk_history) < MaxHist
    /\ LET res == IF p \in snapshots THEN o ELSE Error
           h2 == predict_and_store_risk(risk_history, p, res)
       IN IF res = Error
          THEN /\ last' = [Call("predict_failed", {}, Len(alerts), Len(risk_history))
                                EXCEPT !.failed = {p}]
               /\ UNCHANGED <<risk_history, alerts, collectvars, simvars, extvars>>
          ELSE /\ risk_history' = h2
               /\ alerts' = evaluate_alerts_for_pool(alerts, h2, p, PredictResult(p, res), now)
               /\ last' = [Call("trigger_prediction", {p}, Len(alerts), Len(risk_history))
                                EXCEPT !.results = <<p>>]
    /\ UNCHANGED <<now, snapshots, req, started, collectvars, simvars, extvars>>

\* POST /risk/predict-all, POST /protocols/predict-all
\* out: what predict_risk returns for each pool; bad: the pools whose alert
\* evaluation raises (the request is then answered 500)
trigger_all_predictions(out, bad) ==
    LET h2 == predict_all_pools(risk_history, snapshots, out)
    IN /\ Len(h2) <= MaxHist
       /\ risk_history' = h2
       /\ alerts' = evaluate_all_alerts(alerts, h2, now, bad)
       /\ last' = [Call("predict_all", EvaluatedPools(h2, PoolOrder, bad),
                        Len(alerts), Len(risk_history))
                     EXCEPT !.failed = { p \in snapshots : out[p] = Error },
                            !.results = predict_all_results(snapshots, out),
                            !.eval_failing = bad]
       /\ UNCHANGED <<now, snapshots, req, started, collectvars, simvars, extvars>>

NextSeq ==
    \/ Tick
    \/ FetchAllProtocols
    \/ \E p \in Pools, o \in Outcomes \cup {Error} : trigger_prediction(p, o)
    \/ \E out \in [Pools -> Outcomes \cup {Error}] : trigger_all_predictions(out, {})

Spec == Init /\ [][NextSeq]_vars

\* ------------------------------------- alert engine with database failures
\* the same requests, with the alert evaluation of a pool failing
NextFaults ==
    \/ FetchAllProtocols
    \/ \E p \in Pools, o \in Outcomes \cup {Error} : trigger_prediction(p, o)
    \/ \E out \in [Pools -> Outcomes \cup {Error}], bad \in FailingPools :
          trigger_all_predictions(out, bad)

SpecFaults == Init /\ [][NextFaults]_vars

\* ------------------------------------------- alert engine with resolution
\* the alert sink sets an active alert to 'resolved'
ResolveAlert(i) ==
    /\ i \in 1..Len(alerts)
    /\ alerts[i].status = "active"
    /\ alerts' = [alerts EXCEPT ![i].status = "resolved"]
    /\ last' = Call("resolve", {}, Len(alerts), Len(risk_history))
    /\ UNCHANGED <<now, snapshots, risk_history, req, started, collectvars, simvars, extvars>>

NextDedup ==
    \/ Tick
    \/ FetchAllProtocols
    \/ \E p \in Pools, o \in ConcOutcomes : trigger_prediction(p, o)
    \/ \E i \in 1..(MaxHist * Cardinality(AlertType)) : ResolveAlert(i)

SpecDedup == Init /\ [][NextDedup]_vars

\* ------------------------------------------- concurrent scoring / alerting
\* The endpoints are synchronous FastAPI handlers (run on a thread pool) and
\* the scheduler jobs run on APScheduler's pool; risk_lock is never acquired,
\* so every entry point starts whenever a thread is free.  Each database
\* query and each commit is one step.
RuleOrder == <<HIGH_RISK_ALERT, EARLY_WARNING_ALERT, RISK_ESCALATION_ALERT, RISK_SPIKE>>

\* the pools a SELECT DISTINCT pool_id returns, as a list
PoolList(S) == SelectSeq(PoolOrder, LAMBDA p : p \in S)

ClockTick ==
    /\ now < MaxConcTime
    /\ now' = now + 1
    /\ UNCHANGED <<snapshots, risk_history, alerts, last, req, started, collectvars, simvars, extvars>>

FetchJob ==
    /\ snapshots # Pools
    /\ snapshots' = Pools
    /\ UNCHANGED <<now, risk_history, alerts, last, req, started, collectvars, simvars, extvars>>

\* POST /risk/predict/{pool_id} accepted
StartTriggerPrediction(t, p) ==
    /\ req[t].pc = "idle"
    /\ started < MaxRequests
    /\ started' = started + 1
    /\ req' = [req EXCEPT ![t] = [Idle EXCEPT !.pc = "predict",
                                              !.kind = "trigger_prediction",
                                              !.pool = p]]
    /\ UNCHANGED <<now, snapshots, risk_history, alerts, last, collectvars, simvars, extvars>>

\* evaluator.predict_and_store_risk(pool_id); HTTP 500 when it returns None
PredictAndStore(t, o) ==
    /\ req[t].pc = "predict"
    /\ LET p == req[t].pool
           res == IF p \in snapshots THEN o ELSE Error
       IN IF res = Error
          THEN /\ req' = [req EXCEPT ![t] = Idle]
               /\ UNCHANGED risk_history
          ELSE /\ Len(risk_history) < MaxConcHist
               /\ risk_history' = predict_and_store_risk(risk_history, p, res)
               /\ req' = [req EXCEPT ![t].pc = "get_previous",
                                     ![t].cur = Len(risk_history) + 1]
    /\ UNCHANGED <<now, snapshots, alerts, last, started, collectvars, simvars, extvars>>

\* POST /risk/predict-all, POST /protocols/predict-all, run_full_initialization
StartPredictAll(t) ==
    /\ req[t].pc = "idle"
    /\ started < MaxRequests
    /\ started' = started + 1
    /\ req' = [req EXCEPT ![t] = [Idle EXCEPT !.pc = "predict_all_pools",
                                              !.kind = "predict_all",
                                              !.todo = PoolList(snapshots)]]
    /\ UNCHANGED <<now, snapshots, risk_history, alerts, last, collectvars, simvars, extvars>>

\* one iteration of the loop of predict_all_pools
PredictAllStep(t, o) ==
    /\ req[t].pc = "predict_all_pools"
    /\ req[t].todo # <<>>
    /\ o # Error => Len(risk_history) < MaxConcHist
    /\ risk_history' = predict_and_store_risk(risk_history, Head(req[t].todo), o)
    /\ req' = [req EXCEPT ![t].todo = Tail(req[t].todo)]
    /\ UNCHANGED <<now, snapshots, alerts, last, started, collectvars, simvars, extvars>>

\* evaluate_all_alerts: the pool ids of risk_history
BeginEvaluateAll(t) ==
    /\ req[t].pc = "predict_all_pools"
    /\ req[t].todo = <<>>
    /\ req' = [req EXCEPT ![t].pc = "latest",
                          ![t].todo = PoolList({ p \in Pools : PoolRows(risk_history, p) # {} })]
    /\ UNCHANGED <<now, snapshots, risk_history, alerts, last, started, collectvars, simvars, extvars>>

\* evaluate_all_alerts: the latest row of the next pool, or the end of the loop
ReadLatest(t) ==
    /\ req[t].pc = "latest"
    /\ IF req[t].todo = <<>>
       THEN req' = [req EXCEPT ![t] = Idle]
       ELSE req' = [req EXCEPT ![t].pc = "get_previous",
                               ![t].pool = Head(req[t].todo),
                               ![t].cur = LatestRow(risk_history, Head(req[t].todo)),
                               ![t].todo = Tail(req[t].todo)]
    /\ UNCHANGED <<now, snapshots, risk_history, alerts, last, started, collectvars, simvars, extvars>>

\* evaluate_alerts_for_pool: previous = self.get_previous_risk(pool_id)
GetPrevious(t) ==
    /\ req[t].pc = "get_previous"
    /\ req' = [req EXCEPT ![t].pc = "check",
                          ![t].rule = 1,
                          ![t].prev = get_previous_risk(risk_history, req[t].pool)]
    /\ UNCHANGED <<now, snapshots, risk_history, alerts, last, started, collectvars, simvars, extvars>>

\* the thread after it is done with the rule it is at
AfterRule(r) ==
    IF r.rule < Len(RuleOrder) THEN [r EXCEPT !.pc = "check", !.rule = r.rule + 1]
    ELSE IF r.kind = "trigger_prediction" THEN Idle
    ELSE [r EXCEPT !.pc = "latest", !.pool = "", !.cur = 0, !.prev = 0, !.rule = 0]

\* a rule's condition and its has_recent_alert query
CheckRule(t) ==
    /\ req[t].pc = "check"
    /\ LET r == req[t]
           ty == RuleOrder[r.rule]
           cur == CurrentOf(risk_history, r.cur)
       IN IF RuleCond(ty, risk_history, cur, r.prev)
             /\ ~has_recent_alert(alerts, r.pool, ty, now)
          THEN req' = [req EXCEPT ![t].pc = "create"]
          ELSE req' = [req EXCEPT ![t] = AfterRule(r)]
    /\ UNCHANGED <<now, snapshots, risk_history, alerts, last, started, collectvars, simvars, extvars>>

\* create_alert: the insert and its commit
CreateAlert(t) ==
    /\ req[t].pc = "create"
    /\ LET r == req[t]
           ty == RuleOrder[r.rule]
           cur == CurrentOf(risk_history, r.cur)
       IN /\ alerts' = Append(alerts, RuleAlert(ty, r.pool, risk_history, cur, r.prev, now))
          /\ req' = [req EXCEPT ![t] = AfterRule(r)]
    /\ UNCHANGED <<now, snapshots, risk_history, last, started, collectvars, simvars, extvars>>

\* scheduler jobs submit_risks and full_cycle: compute_and_submit_risks
StartComputeAndSubmit(t) ==
    /\ req[t].pc = "idle"
    /\ started < MaxRequests
    /\ started' = started + 1
    /\ req' = [req EXCEPT ![t] = [Idle EXCEPT !.pc = "submit",
                                              !.kind = "compute_and_submit_risks"]]
    /\ UNCHANGED <<now, snapshots, risk_history, alerts, last, collectvars, simvars, extvars>>

EndComputeAndSubmit(t) ==
    /\ req[t].pc = "submit"
    /\ req' = [req EXCEPT ![t] = Idle]
    /\ UNCHANGED <<now, snapshots, risk_history, alerts, last, started, collectvars, simvars, extvars>>

NextConc ==
    \/ ClockTick
    \/ FetchJob
    \/ \E t \in Threads, p \in Pools : StartTriggerPrediction(t, p)
    \/ \E t \in Threads, o \in ConcOutcomes \cup {Error} : PredictAndStore(t, o)
    \/ \E t \in Threads : StartPredictAll(t)
    \/ \E t \in Threads, o \in ConcOutcomes \cup {Error} : PredictAllStep(t, o)
    \/ \E t \in Threads : BeginEvaluateAll(t)
    \/ \E t \in Threads : ReadLatest(t)
    \/ \E t \in Threads : GetPrevious(t)
    \/ \E t \in Threads : CheckRule(t)
    \/ \E t \in Threads : CreateAlert(t)
    \/ \E t \in Threads : StartComputeAndSubmit(t)
    \/ \E t \in Threads : EndComputeAndSubmit(t)

SpecConc == Init /\ [][NextConc]_vars

\* ------------------------------------------------ collection: operations
_round_to_hour(t) == t - (t % TicksPerHour)

\* one element of MultiProtocolFetcher.get_all_protocols()
ProtoData(p, v) ==
    [pool_id |-> p, tvl |-> v.tvl, volume_24h |-> v.volume_24h,
     reserve0 |-> v.reserve0, reserve1 |-> v.reserve1, data_source |-> v.data_source]

\* get_all_protocols gives every configured pool exactly one entry
Batches ==
    { [i \in 1..Len(PoolOrder) |-> ProtoData(PoolOrder[i], f[PoolOrder[i]])] :
        f \in [Pools -> SnapshotValues] }

\* SnapshotHistory(pool_id=..., timestamp=current_hour, ...)
SnapshotRow(e, hour) ==
    [pool_id |-> e.pool_id, timestamp |-> hour, tvl |-> e.tvl,
     volume_24h |-> e.volume_24h, reserve0 |-> e.reserve0,
     reserve1 |-> e.reserve1, source |-> e.data_source]

\* query(SnapshotHistory).filter(pool_id, timestamp).first(): row index or 0
ExistingRow(tbl, p, hour) ==
    LET hit == { k \in 1..Len(tbl) : tbl[k].pool_id = p /\ tbl[k].timestamp = hour }
    IN IF hit = {} THEN 0 ELSE CHOOSE k \in hit : \A m \in hit : k <= m

\* mutant: insert if absent, an existing row is left as it is
StageEntry_insert_only(tbl, j) ==
    LET e == j.batch[j.i]
        existing == ExistingRow(tbl, e.pool_id, j.hour)
    IN IF existing # 0
       THEN [j EXCEPT !.stored = Append(j.stored, e.pool_id),
                      !.i = j.i + 1]
       ELSE [j EXCEPT !.inserts = Append(j.inserts, SnapshotRow(e, j.hour)),
                      !.stored = Append(j.stored, e.pool_id),
                      !.i = j.i + 1]

\* one iteration of the upsert loop: the session queries the table (autoflush
\* is off, so its own pending inserts are not seen), then updates the loaded
\* row or adds a new one
StageEntry(tbl, j) ==
    LET e == j.batch[j.i]
        existing == ExistingRow(tbl, e.pool_id, j.hour)
    IN IF existing # 0
       THEN [j EXCEPT !.updates = Append(j.updates, [idx |-> existing, row |-> SnapshotRow(e, j.hour)]),
                      !.stored = Append(j.stored, e.pool_id),
                      !.i = j.i + 1]
       ELSE [j EXCEPT !.inserts = Append(j.inserts, SnapshotRow(e, j.hour)),
                      !.stored = Append(j.stored, e.pool_id),
                      !.i = j.i + 1]

\* UniqueConstraint('pool_id', 'timestamp'): the flush of these inserts fails
UniqueViolation(tbl, ins) ==
    \/ \E k \in 1..Len(ins), m \in 1..Len(tbl) :
          tbl[m].pool_id = ins[k].pool_id /\ tbl[m].timestamp = ins[k].timestamp
    \/ \E k, m \in 1..Len(ins) :
          k # m /\ ins[k].pool_id = ins[m].pool_id /\ ins[k].timestamp = ins[m].timestamp

\* the UPDATEs of the loaded rows; the last assignment to a row wins
ApplyUpdates(tbl, ups) ==
    [k \in 1..Len(tbl) |->
        LET mine == { u \in 1..Len(ups) : ups[u].idx = k }
        IN IF mine = {} THEN tbl[k]
           ELSE ups[CHOOSE u \in mine : \A w \in mine : w <= u].row]

\* db.commit(): all of the session's writes, or none on IntegrityError
CommitSession(tbl, j) ==
    IF UniqueViolation(tbl, j.inserts) THEN tbl
    ELSE ApplyUpdates(tbl, j.updates) \o j.inserts

\* the rows seed_historical_data adds: every pool, every hour h..1 before now
\* that has no row yet
RECURSIVE SeedRows(_, _, _, _, _)
SeedRows(tbl, p, h, t, v) ==
    IF h = 0 THEN <<>>
    ELSE LET ts == _round_to_hour(t - h * TicksPerHour)
             row == [pool_id |-> p, timestamp |-> ts, tvl |-> v.tvl,
                     volume_24h |-> v.volume_24h, reserve0 |-> v.reserve0,
                     reserve1 |-> v.reserve1, source |-> "synthetic_seed"]
             rest == SeedRows(tbl, p, h - 1, t, v)
         IN IF ExistingRow(tbl, p, ts) = 0 THEN <<row>> \o rest ELSE rest

RECURSIVE SeedAllPools(_, _, _, _, _)
SeedAllPools(tbl, ps, hours, t, v) ==
    IF ps = <<>> THEN <<>>
    ELSE SeedRows(tbl, Head(ps), hours, t, v) \o SeedAllPools(tbl, Tail(ps), hours, t, v)

HourTick ==
    /\ now < MaxTime
    /\ now' = now + 1
    /\ UNCHANGED <<snapshots, started, scoringvars, collectvars, simvars, extvars>>

\* collect_hourly_snapshot on collector c: the non-blocking acquire, then the
\* fetch of the protocol data
CollectBegin(t, c, batch, fetched) ==
    /\ job[t].pc = "idle"
    /\ started < MaxCollectRuns
    /\ started' = started + 1
    /\ IF locks[c]
       THEN /\ job' = [job EXCEPT ![t] = JobIdle("skipped")]
            /\ UNCHANGED locks
       ELSE IF ~fetched
       THEN /\ job' = [job EXCEPT ![t] = JobIdle("failed")]
            /\ UNCHANGED locks
       ELSE /\ locks' = [locks EXCEPT ![c] = TRUE]
            /\ job' = [job EXCEPT ![t] = [JobIdle("none") EXCEPT
                          !.pc = "stage", !.kind = "collect", !.lock = c,
                          !.hour = _round_to_hour(now), !.batch = batch, !.i = 1]]
    /\ UNCHANGED <<now, snapshots, snapshot_history, committed, scoringvars, simvars, extvars>>

CollectStage(t) ==
    /\ job[t].pc = "stage"
    /\ job[t].i <= Len(job[t].batch)
    /\ job' = [job EXCEPT ![t] = StageEntry(snapshot_history, job[t])]
    /\ UNCHANGED <<now, snapshots, started, snapshot_history, locks, committed, scoringvars, simvars, extvars>>

\* db.commit(), db.close() and the release of the lock in the finally block
CollectCommit(t) ==
    /\ job[t].pc = "stage"
    /\ job[t].i > Len(job[t].batch)
    /\ LET j == job[t]
           failed == UniqueViolation(snapshot_history, j.inserts)
       IN /\ snapshot_history' = CommitSession(snapshot_history, j)
          /\ committed' =
                IF failed THEN committed
                ELSE [kind |-> "collect", hour |-> j.hour, batch |-> j.batch,
                      replaced |-> { j.updates[u].row.pool_id : u \in
                          { w \in 1..Len(j.updates) :
                              snapshot_history[j.updates[w].idx] # j.updates[w].row } }]
          /\ job' = [job EXCEPT ![t] = JobIdle(IF failed THEN "failed" ELSE "stored")]
          /\ locks' = [locks EXCEPT ![j.lock] = FALSE]
    /\ UNCHANGED <<now, snapshots, started, scoringvars, simvars, extvars>>

\* seed_historical_data(hours): the existence queries
SeedBegin(t, hours, v) ==
    /\ job[t].pc = "idle"
    /\ started < MaxCollectRuns
    /\ started' = started + 1
    /\ job' = [job EXCEPT ![t] = [JobIdle("none") EXCEPT
                  !.pc = "seed_commit", !.kind = "seed",
                  !.inserts = SeedAllPools(snapshot_history, PoolOrder, hours, now, v)]]
    /\ UNCHANGED <<now, snapshots, snapshot_history, locks, committed, scoringvars, simvars, extvars>>

\* seed_historical_data: db.commit()
SeedCommit(t) ==
    /\ job[t].pc = "seed_commit"
    /\ LET j == job[t]
           failed == UniqueViolation(snapshot_history, j.inserts)
       IN /\ snapshot_history' = CommitSession(snapshot_history, j)
          /\ committed' = IF failed THEN committed
                          ELSE [kind |-> "seed", hour |-> 0, batch |-> <<>>, replaced |-> {}]
          /\ job' = [job EXCEPT ![t] = JobIdle(IF failed THEN "failed" ELSE "stored")]
    /\ UNCHANGED <<now, snapshots, started, locks, scoringvars, simvars, extvars>>

\* RiskScheduler.fetch_all_protocols_data: the non-blocking acquire
FetchBegin(t) ==
    /\ job[t].pc = "idle"
    /\ started < MaxCollectRuns
    /\ started' = started + 1
    /\ IF locks[SCHEDULER_FETCH_LOCK]
       THEN /\ job' = [job EXCEPT ![t] = JobIdle("skipped")]
            /\ UNCHANGED locks
       ELSE /\ locks' = [locks EXCEPT ![SCHEDULER_FETCH_LOCK] = TRUE]
            /\ job' = [job EXCEPT ![t] = [JobIdle("none") EXCEPT
                          !.pc = "fetching", !.kind = "fetch", !.lock = SCHEDULER_FETCH_LOCK]]
    /\ UNCHANGED <<now, snapshots, snapshot_history, committed, scoringvars, simvars, extvars>>

\* mutant: the release sits after the fetch instead of in a finally block
FetchRun_release_after_fetch(t, ok) ==
    /\ job[t].pc = "fetching"
    /\ snapshots' = IF ok THEN Pools ELSE snapshots
    /\ job' = [job EXCEPT ![t] = JobIdle(IF ok THEN "stored" ELSE "failed")]
    /\ locks' = [locks EXCEPT ![SCHEDULER_FETCH_LOCK] = ~ok]
    /\ UNCHANGED <<now, started, snapshot_history, committed, scoringvars, simvars, extvars>>

\* data_fetcher.fetch_all_protocols() and the release in the finally block
FetchRun(t, ok) ==
    /\ job[t].pc = "fetching"
    /\ snapshots' = IF ok THEN Pools ELSE snapshots
    /\ job' = [job EXCEPT ![t] = JobIdle(IF ok THEN "stored" ELSE "failed")]
    /\ locks' = [locks EXCEPT ![SCHEDULER_FETCH_LOCK] = FALSE]
    /\ UNCHANGED <<now, started, snapshot_history, committed, scoringvars, simvars, extvars>>

NextCollect ==
    \/ HourTick
    \/ \E t \in Threads, c \in Collectors, b \in Batches, f \in BOOLEAN : CollectBegin(t, c, b, f)
    \/ \E t \in Threads : CollectStage(t)
    \/ \E t \in Threads : CollectCommit(t)
    \/ \E t \in Threads, h \in 1..MaxSeedHours, v \in SnapshotValues : SeedBegin(t, h, v)
    \/ \E t \in Threads : SeedCommit(t)
    \/ \E t \in Threads : FetchBegin(t)
    \/ \E t \in Threads, ok \in BOOLEAN : FetchRun(t, ok)

SpecCollect == Init /\ [][NextCollect]_vars

\* ------------------------------------------------------ simulation: actions
\* data_fetcher stores a new latest snapshot of pool p
StoreSnapshot(p, row) ==
    /\ snapshots' = snapshots \cup {p}
    /\ snapshot_features' = [snapshot_features EXCEPT ![p] = row]
    /\ UNCHANGED <<now, started, sim, scoringvars, collectvars, extvars>>

\* a live scoring request while simulations run
SimTriggerPrediction(p, o) ==
    /\ Len(risk_history) < MaxSimHist
    /\ p \in snapshots
    /\ trigger_prediction(p, o)

\* POST /risk/simulate: the request body is validated before the handler
\* runs; a body that fails validation is answered 422
SimulateRequest(t, p, q) ==
    /\ sim[t].pc \in {"idle", "done"}
    /\ started < MaxSimRequests
    /\ started' = started + 1
    /\ IF SimulationRequest(q)
       THEN sim' = [sim EXCEPT ![t] = [SimIdle EXCEPT !.pc = "get_latest_features",
                                                      !.pool = p, !.params = q]]
       ELSE sim' = [sim EXCEPT ![t] = [SimIdle EXCEPT !.pc = "done", !.pool = p,
                                                      !.params = q, !.status = 422]]
    /\ UNCHANGED <<now, snapshots, snapshot_features, scoringvars, collectvars, extvars>>

\* run_simulation step 1: get_latest_features; 404 when the pool has no snapshot
SimGetLatestFeatures(t) ==
    /\ sim[t].pc = "get_latest_features"
    /\ IF sim[t].pool \in snapshots
       THEN sim' = [sim EXCEPT ![t].pc = "predict_risk",
                               ![t].base = get_latest_features(snapshot_features, sim[t].pool)]
       ELSE sim' = [sim EXCEPT ![t].pc = "done", ![t].status = 404]
    /\ UNCHANGED <<now, snapshots, snapshot_features, started, scoringvars, collectvars, extvars>>

\* run_simulation step 2: model_server.predict_risk; 500 on an error payload
SimPredictActual(t, prob) ==
    /\ sim[t].pc = "predict_risk"
    /\ IF prob = ScorerError
       THEN sim' = [sim EXCEPT ![t].pc = "done", ![t].status = 500]
       ELSE sim' = [sim EXCEPT ![t].pc = "apply_overrides",
                               ![t].actual = predict_risk(prob)]
    /\ UNCHANGED <<now, snapshots, snapshot_features, started, scoringvars, collectvars, extvars>>

\* run_simulation steps 3 to 6: apply_overrides, predict_with_features, the
\* delta and the response; 500 when the prediction is an error payload
SimPredictWithFeatures(t, prob) ==
    /\ sim[t].pc = "apply_overrides"
    /\ LET simulated == apply_overrides(sim[t].base, sim[t].params)
           base == base_after_overrides(sim[t].base, simulated)
           res == predict_with_features(simulated.features, prob)
           delta == res.risk_score - sim[t].actual.risk_score
       IN IF prob = ScorerError
          THEN sim' = [sim EXCEPT ![t].pc = "done", ![t].status = 500,
                                  ![t].simulated = simulated, ![t].base = base]
          ELSE sim' = [sim EXCEPT ![t].pc = "done", ![t].status = 200,
                                  ![t].simulated = simulated, ![t].base = base,
                                  ![t].prob = prob,
                                  ![t].result = res,
                                  ![t].delta = delta,
                                  ![t].alert_would_trigger =
                                      (res.risk_score >= 6500 \/ Abs(delta) >= 3000)]
    /\ UNCHANGED <<now, snapshots, snapshot_features, started, scoringvars, collectvars, extvars>>

NextSim ==
    \/ \E p \in Pools, row \in SnapshotRows : StoreSnapshot(p, row)
    \/ \E p \in Pools : SimTriggerPrediction(p, <<75, 50>>)
    \/ \E t \in Threads, p \in Pools, q \in Requests : SimulateRequest(t, p, q)
    \/ \E t \in Threads : SimGetLatestFeatures(t)
    \/ \E t \in Threads, prob \in ActualProbs \cup {ScorerError} : SimPredictActual(t, prob)
    \/ \E t \in Threads, prob \in Probs \cup {ScorerError} : SimPredictWithFeatures(t, prob)

SpecSim == Init /\ [][NextSim]_vars

\* ------------------------------------------- features: basic_timeseries.py
\* Timestamps are in ticks; a ratio x is held as the integer part of
\* 1000 * x (thousandths).  A value that may be None is <<>> (None) or <<v>>.
WINDOW_6H == 6
WINDOW_24H == 24
MIN_POINTS_6H == 4
MIN_POINTS_24H == 18
MaxFeatHour == 25

timedelta(hours) == hours * TicksPerHour
Ratio(a, b) == (a * 1000) \div b
Null == <<>>
Some(v) == <<v>>

TableRows(tbl) == { tbl[i] : i \in 1..Len(tbl) }

\* .order_by(desc(SnapshotHistory.timestamp)).all()
RECURSIVE OrderByDesc(_)
OrderByDesc(rows) ==
    IF rows = {} THEN <<>>
    ELSE LET r == CHOOSE x \in rows : \A y \in rows : y.timestamp <= x.timestamp
         IN <<r>> \o OrderByDesc(rows \ {r})

_get_history(tbl, pool_id, hours, as_of) ==
    OrderByDesc({ r \in TableRows(tbl) :
                    /\ r.pool_id = pool_id
                    /\ r.timestamp >= as_of - timedelta(hours)
                    /\ r.timestamp <= as_of })

\* for snap in history: if snap.timestamp <= target_time: ... break
\* (position of the first such snapshot, 0 when there is none)
FirstAtOrBefore(history, target_time) ==
    LET at == { i \in 1..Len(history) : history[i].timestamp <= target_time }
    IN IF at = {} THEN 0 ELSE CHOOSE i \in at : \A j \in at : i <= j

PastSnapshot(history, k) ==
    IF k = 0 \/ history[k].tvl = 0 THEN history[Len(history)] ELSE history[k]

_compute_tvl_pct_change(history, hours) ==
    IF Len(history) < 2 THEN Null
    ELSE IF PastSnapshot(history,
               FirstAtOrBefore(history, history[1].timestamp - timedelta(hours))).tvl = 0
         THEN Null
         ELSE Some(Clamp(-1000, 10000,
                   Ratio(history[1].tvl
                           - PastSnapshot(history, FirstAtOrBefore(history,
                                 history[1].timestamp - timedelta(hours))).tvl,
                         PastSnapshot(history, FirstAtOrBefore(history,
                                 history[1].timestamp - timedelta(hours))).tvl)))

AccelMid(history) == IF history[4].tvl # 0 THEN history[4].tvl ELSE history[1].tvl
AccelOlder(history) == IF history[7].tvl # 0 THEN history[7].tvl ELSE AccelMid(history)

_compute_tvl_acceleration(history) ==
    IF Len(history) < 7 THEN Null
    ELSE IF AccelMid(history) = 0 \/ AccelOlder(history) = 0 THEN Null
         ELSE Some(Clamp(-1000, 1000,
                   Ratio(history[1].tvl - AccelMid(history), AccelMid(history))
                   - Ratio(AccelMid(history) - AccelOlder(history), AccelOlder(history))))

RECURSIVE SumOf(_, _, _)
SumOf(f, lo, hi) == IF lo > hi THEN 0 ELSE f[lo] + SumOf(f, lo + 1, hi)

\* volumes = [s.volume_24h for s in history if ... s.volume_24h > 0]
PositiveVolumes(history) ==
    SelectSeq([i \in 1..Len(history) |-> history[i].volume_24h], LAMBDA v : v > 0)

_compute_volume_spike_ratio(history) ==
    IF Len(history) < 2 THEN Null
    ELSE IF PositiveVolumes(history) = <<>> THEN Null
         ELSE Some(Clamp(0, 100000,
                   Ratio(history[1].volume_24h * Len(PositiveVolumes(history)),
                         SumOf(PositiveVolumes(history), 1, Len(PositiveVolumes(history))))))

_compute_reserve_imbalance(reserve0, reserve1) ==
    IF reserve0 + reserve1 = 0 THEN Null
    ELSE Some(Ratio(Abs(reserve0 - reserve1), reserve0 + reserve1))

\* the TimeSeriesFeatures built from the fetched history
TimeSeriesFeatures(as_of, history) ==
    IF Len(history) < MIN_POINTS_6H
    THEN [timestamp |-> as_of, data_points_available |-> Len(history),
          sufficient_data |-> FALSE,
          tvl_pct_change_6h |-> Null, tvl_pct_change_24h |-> Null,
          tvl_acceleration |-> Null, volume_spike_ratio |-> Null,
          reserve_imbalance |-> Null]
    ELSE [timestamp |-> as_of, data_points_available |-> Len(history),
          sufficient_data |-> Len(history) >= MIN_POINTS_24H,
          tvl_pct_change_6h |-> _compute_tvl_pct_change(history, WINDOW_6H),
          tvl_pct_change_24h |-> _compute_tvl_pct_change(history, WINDOW_24H),
          tvl_acceleration |-> _compute_tvl_acceleration(history),
          volume_spike_ratio |-> _compute_volume_spike_ratio(history),
          reserve_imbalance |->
              _compute_reserve_imbalance(history[1].reserve0, history[1].reserve1)]

compute_features(tbl, pool_id, as_of) ==
    TimeSeriesFeatures(_round_to_hour(as_of),
        _get_history(tbl, pool_id, WINDOW_24H, _round_to_hour(as_of)))

\* ----------------------------------------- features: advanced_features.py
\* df.sort_values('timestamp').reset_index(drop=True) of one pool's rows
RECURSIVE SortValues(_)
SortValues(rows) ==
    IF rows = {} THEN <<>>
    ELSE LET r == CHOOSE x \in rows : \A y \in rows : x.timestamp <= y.timestamp
         IN <<r>> \o SortValues(rows \ {r})

PoolFrame(tbl, pool_id) == SortValues({ r \in TableRows(tbl) : r.pool_id = pool_id })

\* df[col].pct_change(periods).fillna(0); the collected rows have tvl > 0
PctChange(df, i, periods) ==
    IF i <= periods THEN 0
    ELSE Ratio(df[i].tvl - df[i - periods].tvl, df[i - periods].tvl)

\* the largest r with r * r <= x
RECURSIVE SqrtBetween(_, _, _)
SqrtBetween(x, lo, hi) ==
    IF lo >= hi THEN lo
    ELSE IF ((lo + hi + 1) \div 2) * ((lo + hi + 1) \div 2) <= x
         THEN SqrtBetween(x, (lo + hi + 1) \div 2, hi)
         ELSE SqrtBetween(x, lo, ((lo + hi + 1) \div 2) - 1)
Sqrt(x) == SqrtBetween(x, 0, Min(x, 40000))

\* df['tvl_return'].rolling(window, min_periods).std().fillna(0) at row i:
\* the sample standard deviation of the returns of rows max(1, i-window+1)..i
WindowStart(i, window) == Max(1, i - window + 1)
ReturnsSum(df, i, window) ==
    SumOf([j \in 1..i |-> PctChange(df, j, 1)], WindowStart(i, window), i)
ReturnsSquares(df, i, window) ==
    SumOf([j \in 1..i |-> PctChange(df, j, 1) * PctChange(df, j, 1)],
          WindowStart(i, window), i)
WindowCount(i, window) == i - WindowStart(i, window) + 1
RollingStd(df, i, window, min_periods) ==
    IF WindowCount(i, window) < min_periods THEN 0
    ELSE Sqrt((WindowCount(i, window) * ReturnsSquares(df, i, window)
                 - ReturnsSum(df, i, window) * ReturnsSum(df, i, window))
              \div (WindowCount(i, window) * (WindowCount(i, window) - 1)))

\* df['volume_24h'] / df['volume_24h'].rolling(24, min_periods=1).mean(), or 1.0
VolumeSpike(df, i) ==
    IF SumOf([j \in 1..i |-> df[j].volume_24h], WindowStart(i, WINDOW_24H), i) > 0
    THEN Ratio(df[i].volume_24h * WindowCount(i, WINDOW_24H),
               SumOf([j \in 1..i |-> df[j].volume_24h], WindowStart(i, WINDOW_24H), i))
    ELSE 1000

Imbalance(df, i) ==
    IF df[i].reserve0 + df[i].reserve1 > 0
    THEN Ratio(Abs(df[i].reserve0 - df[i].reserve1), df[i].reserve0 + df[i].reserve1)
    ELSE 0

\* df['reserve_imbalance'].diff(periods=6).fillna(0)
ImbalanceRate(df, i) ==
    IF i <= WINDOW_6H THEN 0 ELSE Imbalance(df, i) - Imbalance(df, i - WINDOW_6H)

\* df['tvl_change_6h'] - df['tvl_change_6h'].shift(6).fillna(0)
Acceleration(df, i) ==
    PctChange(df, i, WINDOW_6H)
    - (IF i <= WINDOW_6H THEN 0 ELSE PctChange(df, i - WINDOW_6H, WINDOW_6H))

VolatilityRatio(df, i) ==
    IF RollingStd(df, i, WINDOW_24H, 6) > 1
    THEN Ratio(RollingStd(df, i, WINDOW_6H, 2), RollingStd(df, i, WINDOW_24H, 6))
    ELSE 1000

\* _compute_early_warning_score, in thousandths of a point, from the
\* columns before they are clipped
_compute_early_warning_score(df, i) ==
    Clamp(0, 100000,
          50000 - PctChange(df, i, WINDOW_6H) * 15
                - PctChange(df, i, WINDOW_24H) * 20
                - Acceleration(df, i) * 20
                + (Max(VolumeSpike(df, i) - 1000, 0) * 3) \div 2
                + ImbalanceRate(df, i) * 10
                + Max(VolatilityRatio(df, i) - 1000, 0) * 2)

\* the feature columns of row i of the returned frame
FeatureRow(df, i) ==
    [tvl_change_6h |-> Clamp(-1000, 1000, PctChange(df, i, WINDOW_6H)),
     tvl_change_24h |-> Clamp(-1000, 1000, PctChange(df, i, WINDOW_24H)),
     tvl_acceleration |-> Clamp(-500, 500, Acceleration(df, i)),
     volume_spike_ratio |-> Clamp(0, 10000, VolumeSpike(df, i)),
     reserve_imbalance |-> Clamp(0, 1000, Imbalance(df, i)),
     reserve_imbalance_rate |-> Clamp(-500, 500, ImbalanceRate(df, i)),
     volatility_6h |-> Clamp(0, 1000, RollingStd(df, i, WINDOW_6H, 2)),
     volatility_24h |-> Clamp(0, 1000, RollingStd(df, i, WINDOW_24H, 6)),
     volatility_ratio |-> Clamp(0, 10000, VolatilityRatio(df, i)),
     early_warning_score |-> _compute_early_warning_score(df, i)]

\* the feature columns of every row of the frame compute_features_from_df
\* returns: none at all when the frame is returned as it was given
compute_features_from_df(df) ==
    IF Len(df) < MIN_POINTS_6H
    THEN [i \in 1..Len(df) |-> Null]
    ELSE [i \in 1..Len(df) |-> Some(FeatureRow(df, i))]

\* --------------------------------------------------- features: the table
\* the hours and pools whose snapshot_history rows are written: seven
\* consecutive hours and one hour a day earlier for the first pool, one
\* hour for the second
FeatHours == {0} \cup ((MaxFeatHour - 6)..MaxFeatHour)
FeatKeys ==
    { <<PoolOrder[1], timedelta(h)>> : h \in FeatHours }
        \cup { <<PoolOrder[2], timedelta(MaxFeatHour)>> }
\* the instants features are asked for: every tick of every such hour
Instants == { timedelta(h) + d : h \in FeatHours, d \in 0..(TicksPerHour - 1) }

\* the table lists its rows by timestamp, then pool; every query of the
\* feature engines orders the rows itself
RowKey(r) ==
    r.timestamp * Len(PoolOrder)
        + (CHOOSE k \in 1..Len(PoolOrder) : PoolOrder[k] = r.pool_id)
RECURSIVE TableOf(_)
TableOf(rows) ==
    IF rows = {} THEN <<>>
    ELSE LET r == CHOOSE x \in rows : \A y \in rows : RowKey(x) <= RowKey(y)
         IN <<r>> \o TableOf(rows \ {r})

\* db.add(snapshot) of a row for an hour the pool has no row for
InsertRecord(key, v) ==
    /\ \A r \in TableRows(snapshot_history) :
          ~(r.pool_id = key[1] /\ r.timestamp = key[2])
    /\ snapshot_history' =
          TableOf(TableRows(snapshot_history)
                    \cup {SnapshotRow(ProtoData(key[1], v), key[2])})
    /\ UNCHANGED <<now, snapshots, started, locks, job, committed, scoringvars, simvars, extvars>>

\* existing.tvl = snapshot.tvl, ...: the metrics of a stored row replaced
UpdateRecord(i, v) ==
    /\ i \in 1..Len(snapshot_history)
    /\ SnapshotRow(ProtoData(snapshot_history[i].pool_id, v),
                   snapshot_history[i].timestamp) # snapshot_history[i]
    /\ snapshot_history' =
          [snapshot_history EXCEPT
              ![i] = SnapshotRow(ProtoData(snapshot_history[i].pool_id, v),
                                 snapshot_history[i].timestamp)]
    /\ UNCHANGED <<now, snapshots, started, locks, job, committed, scoringvars, simvars, extvars>>

\* a stored row removed from the table
DeleteRecord(i) ==
    /\ i \in 1..Len(snapshot_history)
    /\ snapshot_history' = TableOf(TableRows(snapshot_history) \ {snapshot_history[i]})
    /\ UNCHANGED <<now, snapshots, started, locks, job, committed, scoringvars, simvars, extvars>>

NextFeat ==
    \/ \E key \in FeatKeys, v \in SnapshotValues : InsertRecord(key, v)
    \/ \E i \in 1..Cardinality(FeatKeys), v \in SnapshotValues : UpdateRecord(i, v)
    \/ \E i \in 1..Cardinality(FeatKeys) : DeleteRecord(i)

SpecFeat == Init /\ [][NextFeat]_vars

\* ------------------------------------------------ training: model_trainer.py
\* Rows are numbered from 1; the thresholds are in percent.  A label is
\* <<0>> or <<1>>, and <<>> where the source holds NaN.
HORIZON_6H == 6
HORIZON_24H == 24
CRASH_THRESHOLD_6H == 10
CRASH_THRESHOLD_24H == 20
MaxSeriesLen == 27

\* the tvl a collected snapshot holds, and the values rows are rewritten to
BaseTvl == 100
TvlValues == {100, 85, 75}
\* the rows of the first pool whose tvl is rewritten
MutableRows == {1, 2, 2 + HORIZON_6H, 2 + HORIZON_24H}

\* labels[i] of one pool's tvl series for one horizon, with the current tvl
\* taken from the row before row i
ForwardLabel_lagged(tvl, i, horizon, threshold) ==
    IF i > Len(tvl) - horizon THEN Null
    ELSE IF tvl[Max(1, i - 1)] > 0
            /\ (tvl[i + horizon] - tvl[Max(1, i - 1)]) * 100
                  < (0 - threshold) * tvl[Max(1, i - 1)]
         THEN Some(1) ELSE Some(0)

\* labels[i] of one pool's tvl series for one horizon
ForwardLabel(tvl, i, horizon, threshold) ==
    IF i > Len(tvl) - horizon THEN Null
    ELSE IF tvl[i] > 0 /\ (tvl[i + horizon] - tvl[i]) * 100 < (0 - threshold) * tvl[i]
         THEN Some(1) ELSE Some(0)

\* the label columns create_forward_labels gives every row of one pool
create_forward_labels(tvl) ==
    [i \in 1..Len(tvl) |->
        [label_6h |-> ForwardLabel(tvl, i, HORIZON_6H, CRASH_THRESHOLD_6H),
         label_24h |-> ForwardLabel(tvl, i, HORIZON_24H, CRASH_THRESHOLD_24H)]]

\* df[df['label_24h'].notna()]: the rows of one pool that are kept, as
\* [pool_id, timestamp]; a row's timestamp is its hour since collection began
LabeledRows(series, p) ==
    [i \in 1..Max(0, Len(series[p]) - HORIZON_24H) |-> [pool_id |-> p, timestamp |-> i]]

\* the frame handed to train: the kept rows of every pool, pool after pool
RECURSIVE ConcatPools(_, _)
ConcatPools(series, ps) ==
    IF ps = <<>> THEN <<>>
    ELSE LabeledRows(series, Head(ps)) \o ConcatPools(series, Tail(ps))
prepare_training_data(series) == ConcatPools(series, PoolOrder)

\* split_idx = int(len(X) * train_ratio), train_ratio = 0.8
split_idx(X) == (Len(X) * 8) \div 10
X_train(X) == SubSeq(X, 1, split_idx(X))
X_test(X) == SubSeq(X, split_idx(X) + 1, Len(X))

\* a Snapshot row of pool p stored by a collection round
StoreTrainingSnapshot(p) ==
    /\ Len(tvl_series[p]) < MaxSeriesLen
    /\ tvl_series' = [tvl_series EXCEPT ![p] = Append(@, BaseTvl)]
    /\ UNCHANGED <<now, snapshots, started, scoringvars, collectvars, simvars, initvars, latevars>>

\* the tvl of row i of the first pool rewritten
MutateTvl(i, v) ==
    /\ i \in 1..Len(tvl_series[PoolOrder[1]])
    /\ tvl_series[PoolOrder[1]][i] # v
    /\ tvl_series' = [tvl_series EXCEPT ![PoolOrder[1]][i] = v]
    /\ UNCHANGED <<now, snapshots, started, scoringvars, collectvars, simvars, initvars, latevars>>

NextTrain ==
    \/ \E p \in Pools : StoreTrainingSnapshot(p)
    \/ \E i \in MutableRows, v \in TvlValues : MutateTvl(i, v)

SpecTrain == Init /\ [][NextTrain]_vars

\* ------------------------------- routers/protocols.py: background tasks
MaxInitRequests == 3

\* a request as the endpoint answered it, and the task it added (pc "none"
\* when it added no task, else "queued", "running", "done")
TaskEntry(kind, response, pc) == [kind |-> kind, response |-> response, pc |-> pc]

\* POST /protocols/initialize: the running flag is only read here; it is
\* run_full_initialization that sets it
initialize_system ==
    /\ Len(background_tasks) < MaxInitRequests
    /\ background_tasks' =
          Append(background_tasks,
                 IF _init_status.running
                 THEN TaskEntry("initialize", "already_running", "none")
                 ELSE TaskEntry("initialize", "started", "queued"))
    /\ UNCHANGED <<_init_status, now, snapshots, started, scoringvars, collectvars,
                   simvars, trainvars, latevars>>

\* POST /protocols/train-model: the flag is tested and set under the lock
train_model_endpoint ==
    /\ Len(background_tasks) < MaxInitRequests
    /\ IF _init_status.running
       THEN /\ background_tasks' =
                  Append(background_tasks, TaskEntry("train", "busy", "none"))
            /\ UNCHANGED _init_status
       ELSE /\ background_tasks' =
                  Append(background_tasks, TaskEntry("train", "started", "queued"))
            /\ _init_status' = [_init_status EXCEPT !.running = TRUE]
    /\ UNCHANGED <<now, snapshots, started, scoringvars, collectvars, simvars, trainvars, latevars>>

\* the thread pool starts an added task: run_full_initialization sets
\* running and clears error and completed, and reports its first phase;
\* train_task reports its phase
StartTask(k) ==
    /\ k \in 1..Len(background_tasks)
    /\ background_tasks[k].pc = "queued"
    /\ background_tasks' = [background_tasks EXCEPT ![k].pc = "running"]
    /\ _init_status' =
          IF background_tasks[k].kind = "initialize"
          THEN [running |-> TRUE, error |-> FALSE, completed |-> FALSE]
          ELSE [_init_status EXCEPT !.error = FALSE, !.completed = FALSE]
    /\ UNCHANGED <<now, snapshots, started, scoringvars, collectvars, simvars, trainvars, latevars>>

\* a running task ends, having succeeded (update_status(..., completed=True))
\* or failed (update_status(..., error=...)); its finally clears running
FinishTask(k, ok) ==
    /\ k \in 1..Len(background_tasks)
    /\ background_tasks[k].pc = "running"
    /\ background_tasks' = [background_tasks EXCEPT ![k].pc = "done"]
    /\ _init_status' = [running |-> FALSE, error |-> ~ok, completed |-> ok]
    /\ UNCHANGED <<now, snapshots, started, scoringvars, collectvars, simvars, trainvars, latevars>>

NextInit ==
    \/ initialize_system
    \/ train_model_endpoint
    \/ \E k \in 1..MaxInitRequests : StartTask(k)
    \/ \E k \in 1..MaxInitRequests, ok \in BOOLEAN : FinishTask(k, ok)

SpecInit == Init /\ [][NextInit]_vars

\* ------------------------------- data_fetcher.py: crash_prone synthetic data
\* "Force crash state near the end for crash_prone pools": runs before the
\* state machine in every iteration
ForcedWindow(g) ==
    IF g.forced_crash_start # None /\ g.i >= g.forced_crash_start
    THEN IF g.regime = "normal"
         THEN [g EXCEPT !.regime = "pre_crash",
                        !.regime_duration = NumSamples - g.i + 10]
         ELSE IF g.regime = "pre_crash" /\ g.i >= g.forced_crash_end_protection
         THEN [g EXCEPT !.regime = "crash",
                        !.regime_duration = NumSamples - g.i + 5]
         ELSE g
    ELSE g

\* "State machine for realistic price dynamics": the locals after one
\* iteration, for every outcome of random.random() and random.randint()
RegimeStep(g) ==
    LET d == g.regime_duration - 1
    IN CASE g.regime = "normal" ->
              {g} \cup { [g EXCEPT !.regime = "pre_crash", !.regime_duration = r] : r \in 6..24 }
         [] g.regime = "pre_crash" ->
              IF d <= 0 /\ (g.forced_crash_end_protection = None
                              \/ g.i < g.forced_crash_end_protection)
              THEN { [g EXCEPT !.regime = "crash", !.regime_duration = r] : r \in 6..18 }
              ELSE { [g EXCEPT !.regime_duration = d] }
         [] g.regime = "crash" ->
              IF d <= 0 /\ (g.forced_crash_start = None \/ g.i < NumSamples - 3)
              THEN { [g EXCEPT !.regime = "recovery", !.regime_duration = r] : r \in 24..72 }
              ELSE { [g EXCEPT !.regime_duration = d] }
         [] g.regime = "recovery" ->
              IF d <= 0
              THEN { [g EXCEPT !.regime = "normal", !.regime_duration = d] }
              ELSE { [g EXCEPT !.regime_duration = d] }

\* generate_predictive_synthetic_data(pool_id, num_samples, 'crash_prone',
\* force_current_risk_state): the set-up before the loop
generate_predictive_synthetic_data(force, r_start, r_protect) ==
    /\ gen.pc = "idle"
    /\ gen' = [GenIdle EXCEPT
                  !.pc = "loop", !.force_current_risk_state = force,
                  !.forced_crash_start = IF force THEN NumSamples - r_start ELSE None,
                  !.forced_crash_end_protection = IF force THEN NumSamples - r_protect ELSE None]
    /\ UNCHANGED <<now, snapshots, started, scoringvars, collectvars, simvars,
                   trainvars, initvars, chain>>

\* one iteration of "for i in range(num_samples)": the snapshot records the
\* regime the state machine has left
GenerateSnapshot ==
    /\ gen.pc = "loop"
    /\ gen.i < NumSamples
    /\ \E g \in RegimeStep(ForcedWindow(gen)) :
          gen' = [g EXCEPT !.i = gen.i + 1, !.final_regime = g.regime]
    /\ UNCHANGED <<now, snapshots, started, scoringvars, collectvars, simvars,
                   trainvars, initvars, chain>>

\* final_regime = snapshots[-1].features.get('regime', 'unknown')
GenerateDone ==
    /\ gen.pc = "loop"
    /\ gen.i = NumSamples
    /\ gen' = [gen EXCEPT !.pc = "done"]
    /\ UNCHANGED <<now, snapshots, started, scoringvars, collectvars, simvars,
                   trainvars, initvars, chain>>

NextGen ==
    \/ \E force \in BOOLEAN, r_start \in 12..24, r_protect \in 3..8 :
          generate_predictive_synthetic_data(force, r_start, r_protect)
    \/ GenerateSnapshot
    \/ GenerateDone

SpecGen == Init /\ [][NextGen]_vars

\* --------------------------------------- submit_to_chain.py and scheduler.py
MaxSubmitRuns == 2

\* what the node answers to one submitRisk transaction
ChainOutcomes == {"send_error", "confirmed", "reverted", "timeout"}

\* the outcomes of model_server.predict_risk seen by the submit loop
SubmitOutcomes == { <<10, 50>>, <<75, 50>>, Error }

\* _update_submission_status(tx_hash, status)
_update_submission_status(subs, tx_hash, status) ==
    [k \in 1..Len(subs) |->
        IF subs[k].tx_hash = tx_hash THEN [subs[k] EXCEPT !.status = status] ELSE subs[k]]

\* ChainSubmitter.submit_risk: the table afterwards, whether the call raised,
\* and the transaction hash it returned.  The hash of a sent transaction is
\* modelled by the position of its row.  "raise Exception('Transaction
\* failed')" is inside the try whose "except Exception" returns tx_hash_hex.
submit_risk(subs, pool_id, risk_score, outcome) ==
    IF outcome = "send_error"
    THEN [risk_submissions |-> subs, raised |-> TRUE, tx |-> None]
    ELSE LET tx_hash == Len(subs) + 1
             stored == Append(subs, [pool_id |-> pool_id, risk_score |-> risk_score,
                                      tx_hash |-> tx_hash, status |-> "pending"])
         IN CASE outcome = "confirmed" ->
                   [risk_submissions |-> _update_submission_status(stored, tx_hash, "confirmed"),
                    raised |-> FALSE, tx |-> tx_hash]
              [] outcome = "reverted" ->
                   [risk_submissions |-> _update_submission_status(stored, tx_hash, "failed"),
                    raised |-> FALSE, tx |-> tx_hash]
              [] outcome = "timeout" ->
                   [risk_submissions |-> stored, raised |-> FALSE, tx |-> tx_hash]

\* compute_and_submit_risks: the distinct pool ids of the snapshots table
compute_and_submit_risks ==
    /\ chain.pc \in {"idle", "done"}
    /\ chain.runs < MaxSubmitRuns
    /\ chain' = [chain EXCEPT
                    !.pc = "loop", !.runs = chain.runs + 1,
                    !.pool_ids = SelectSeq(PoolOrder, LAMBDA p : p \in snapshots),
                    !.i = 1, !.submitted = 0, !.returned = {}, !.raised = {}]
    /\ UNCHANGED <<now, snapshots, started, scoringvars, collectvars, simvars,
                   trainvars, initvars, gen>>

\* one iteration of "for pool_id in pool_ids"
SubmitPool(o, outcome) ==
    /\ chain.pc = "loop"
    /\ chain.i <= Len(chain.pool_ids)
    /\ LET pool_id == chain.pool_ids[chain.i]
       IN IF o = Error
          THEN chain' = [chain EXCEPT !.i = chain.i + 1,
                                      !.raised = chain.raised \cup {pool_id}]
          ELSE IF o[1] >= 30
          THEN LET res == submit_risk(chain.risk_submissions, pool_id, o[1], outcome)
               IN IF res.raised
                  THEN chain' = [chain EXCEPT !.i = chain.i + 1,
                                              !.risk_submissions = res.risk_submissions,
                                              !.raised = chain.raised \cup {pool_id}]
                  ELSE chain' = [chain EXCEPT !.i = chain.i + 1,
                                              !.risk_submissions = res.risk_submissions,
                                              !.submitted = chain.submitted + 1,
                                              !.returned = chain.returned \cup {res.tx}]
          ELSE chain' = [chain EXCEPT !.i = chain.i + 1]
    /\ UNCHANGED <<now, snapshots, started, scoringvars, collectvars, simvars,
                   trainvars, initvars, gen>>

\* "Submitted {submitted} risk updates" and db.close()
SubmitDone ==
    /\ chain.pc = "loop"
    /\ chain.i > Len(chain.pool_ids)
    /\ chain' = [chain EXCEPT !.pc = "done"]
    /\ UNCHANGED <<now, snapshots, started, scoringvars, collectvars, simvars,
                   trainvars, initvars, gen>>

NextChain ==
    \/ FetchAllProtocols
    \/ compute_and_submit_risks
    \/ \E o \in SubmitOutcomes, outcome \in ChainOutcomes : SubmitPool(o, outcome)
    \/ SubmitDone

SpecChain == Init /\ [][NextChain]_vars

\* ------------------------------------ collection: a batch with a duplicate
\* a protocol list in which one pool appears a second time
DuplicateBatches ==
    { Append(b, ProtoData(p, v)) : b \in Batches, p \in Pools, v \in SnapshotValues }

NextDupCollect ==
    \/ HourTick
    \/ \E t \in Threads, c \in Collectors, b \in DuplicateBatches, f \in BOOLEAN :
          CollectBegin(t, c, b, f)
    \/ \E t \in Threads : CollectStage(t)
    \/ \E t \in Threads : CollectCommit(t)

SpecDupCollect == Init /\ [][NextDupCollect]_vars

\* ------------------------------------------------ vocabulary of the claims
\* the alerts that existed before the last call, and the ones it created
NewAlertIdx == (last.alerts_before + 1)..Len(alerts)
OldAlertIdx == 1..last.alerts_before

Created(p, ty) ==
    \E i \in NewAlertIdx : alerts[i].pool_id = p /\ alerts[i].alert_type = ty

\* an active alert of this pool and type, at most one hour old, existed
\* before the call
Suppressed(p, ty) ==
    \E i \in OldAlertIdx :
        /\ alerts[i].pool_id = p /\ alerts[i].alert_type = ty
        /\ alerts[i].status = "active"
        /\ now - alerts[i].created_at <= TicksPerHour

\* the assessment the last call evaluated for p: the newest stored row of p
CurIdx(p) ==
    CHOOSE i \in 1..Len(risk_history) :
        /\ risk_history[i].pool_id = p
        /\ \A j \in (i + 1)..Len(risk_history) : risk_history[j].pool_id # p

HasPrev(p) ==
    \E j \in 1..(CurIdx(p) - 1) : risk_history[j].pool_id = p

\* the most recent row of p produced strictly earlier than the current one
PrevIdx(p) ==
    CHOOSE j \in 1..(CurIdx(p) - 1) :
        /\ risk_history[j].pool_id = p
        /\ \A k \in (j + 1)..(CurIdx(p) - 1) : risk_history[k].pool_id # p

Cur(p) == risk_history[CurIdx(p)]
Prev(p) == risk_history[PrevIdx(p)]

\* the triggering condition of each rule, in the words of the specification
Triggered(p, ty) ==
    CASE ty = HIGH_RISK_ALERT -> Cur(p).risk_score >= 65
      [] ty = EARLY_WARNING_ALERT ->
            /\ Cur(p).early_warning_score # None
            /\ Cur(p).early_warning_score >= 40
            /\ Cur(p).risk_score >= 20
      [] ty = RISK_ESCALATION_ALERT ->
            /\ HasPrev(p)
            /\ \/ Prev(p).risk_level = "LOW" /\ Cur(p).risk_level \in {"MEDIUM", "HIGH"}
               \/ Prev(p).risk_level = "MEDIUM" /\ Cur(p).risk_level = "HIGH"
      [] ty = RISK_SPIKE ->
            /\ HasPrev(p)
            /\ Cur(p).risk_score - Prev(p).risk_score >= 30

\* alerts of this pool and type created within the last hour
RecentCount(p, ty) ==
    Cardinality({ i \in 1..Len(alerts) :
        /\ alerts[i].pool_id = p /\ alerts[i].alert_type = ty
        /\ now - alerts[i].created_at <= TicksPerHour })

\* C1: Dedup window.  Whenever evaluate has just run for a pool and a rule's
\* triggering condition holds, exactly one alert of that type exists for the
\* pool within the last hour: the first call of an hour created it and every
\* later call of that hour was suppressed.
C1_DedupWindow ==
    \A p \in last.evaluated, ty \in AlertType :
        Triggered(p, ty) => RecentCount(p, ty) = 1

\* a second call within the hour whose condition held and that created nothing
C1_Witness ==
    \E p \in last.evaluated, ty \in AlertType :
        /\ Triggered(p, ty)
        /\ ~Created(p, ty)
        /\ \E i \in OldAlertIdx :
              /\ alerts[i].pool_id = p /\ alerts[i].alert_type = ty
              /\ alerts[i].created_at = now - 1
\* C6: Dedup is time-windowed.  When evaluate runs for a pool, a rule's
\* condition holds and every earlier active alert of that type for the pool
\* is more than one hour old, a new alert of that type is created.
C6_RefireAfterWindow ==
    \A p \in last.evaluated, ty \in AlertType :
        (Triggered(p, ty) /\ ~Suppressed(p, ty)) =>
            \E i \in NewAlertIdx :
                /\ alerts[i].pool_id = p /\ alerts[i].alert_type = ty
                /\ alerts[i].created_at = now /\ alerts[i].status = "active"

\* a re-fire: an alert created now although an older one of the same pool and
\* type exists, and the assessment has not changed in between
C6_Witness ==
    \E p \in last.evaluated, ty \in AlertType :
        /\ last.op = "predict_all"
        /\ Created(p, ty)
        /\ \E i \in OldAlertIdx :
              /\ alerts[i].pool_id = p /\ alerts[i].alert_type = ty
              /\ alerts[i].status = "active"
              /\ now - alerts[i].created_at > TicksPerHour
              /\ alerts[i].risk_score = Cur(p).risk_score

\* C7: Escalation asymmetry.  Absent dedup suppression, evaluate creates a
\* RISK_ESCALATION_ALERT exactly when a previous assessment exists and the
\* level moved LOW->MEDIUM, LOW->HIGH or MEDIUM->HIGH; never for an unchanged
\* level, a downgrade or a pool without a previous assessment.
C7_EscalationAsymmetry ==
    \A p \in last.evaluated :
        /\ Created(p, RISK_ESCALATION_ALERT) =>
              /\ HasPrev(p)
              /\ <<Prev(p).risk_level, Cur(p).risk_level>> \in
                    { <<"LOW", "MEDIUM">>, <<"LOW", "HIGH">>, <<"MEDIUM", "HIGH">> }
        /\ ( /\ HasPrev(p)
             /\ <<Prev(p).risk_level, Cur(p).risk_level>> \in
                    { <<"LOW", "MEDIUM">>, <<"LOW", "HIGH">>, <<"MEDIUM", "HIGH">> }
             /\ ~Suppressed(p, RISK_ESCALATION_ALERT) )
           => Created(p, RISK_ESCALATION_ALERT)

\* LOW -> HIGH has just produced an escalation alert
C7_Witness ==
    \E p \in last.evaluated :
        /\ Created(p, RISK_ESCALATION_ALERT)
        /\ HasPrev(p)
        /\ Prev(p).risk_level = "LOW" /\ Cur(p).risk_level = "HIGH"

\* C8: Rules are independent.  In one evaluate call every rule whose condition
\* holds and that is not dedup-suppressed creates its alert, whatever the other
\* rules did; previous 40 (MEDIUM) and current 75 (HIGH) create both the
\* escalation and the spike alert in the same call.
C8_RulesIndependent ==
    \A p \in last.evaluated :
        /\ \A ty \in AlertType :
              (Triggered(p, ty) /\ ~Suppressed(p, ty)) => Created(p, ty)
        /\ ( /\ HasPrev(p)
             /\ Prev(p).risk_score = 40 /\ Cur(p).risk_score = 75
             /\ ~Suppressed(p, RISK_ESCALATION_ALERT)
             /\ ~Suppressed(p, RISK_SPIKE) )
           => (Created(p, RISK_ESCALATION_ALERT) /\ Created(p, RISK_SPIKE))

\* scenario D: 40 -> 75, both alerts created by the same call
C8_Witness ==
    \E p \in last.evaluated :
        /\ HasPrev(p)
        /\ Prev(p).risk_score = 40 /\ Prev(p).risk_level = "MEDIUM"
        /\ Cur(p).risk_score = 75 /\ Cur(p).risk_level = "HIGH"
        /\ Created(p, RISK_ESCALATION_ALERT)
        /\ Created(p, RISK_SPIKE)
        /\ Created(p, HIGH_RISK_ALERT)

\* C10: Absent dedup suppression, evaluate creates a RISK_SPIKE_ALERT exactly
\* when a previous assessment exists and the score rose by at least 30,
\* whether or not the level changed; never on a decrease or without a previous
\* assessment; the alert records the previous score and level.
C10_RiskSpike ==
    \A p \in last.evaluated :
        /\ \A i \in NewAlertIdx :
              (alerts[i].pool_id = p /\ alerts[i].alert_type = RISK_SPIKE) =>
                  /\ HasPrev(p)
                  /\ Cur(p).risk_score - Prev(p).risk_score >= 30
                  /\ alerts[i].previous_risk_score = Prev(p).risk_score
                  /\ alerts[i].previous_risk_level = Prev(p).risk_level
        /\ ( /\ HasPrev(p)
             /\ Cur(p).risk_score - Prev(p).risk_score >= 30
             /\ ~Suppressed(p, RISK_SPIKE) )
           => Created(p, RISK_SPIKE)

\* a spike inside one level band (MEDIUM 34 -> MEDIUM 64)
C10_Witness ==
    \E p \in last.evaluated :
        /\ Created(p, RISK_SPIKE)
        /\ HasPrev(p)
        /\ Prev(p).risk_level = Cur(p).risk_level
\* C11: Absent dedup suppression, evaluate creates a HIGH_RISK_ALERT exactly
\* when the current risk_score is at least 65; when the score is at least 65
\* the alert is withheld exactly when an active HIGH_RISK_ALERT of the pool
\* was created within the last hour.
C11_HighRiskRule ==
    \A p \in last.evaluated :
        /\ Created(p, HIGH_RISK_ALERT) <=>
              (Cur(p).risk_score >= 65 /\ ~Suppressed(p, HIGH_RISK_ALERT))
        /\ Cardinality({ i \in NewAlertIdx :
              alerts[i].pool_id = p /\ alerts[i].alert_type = HIGH_RISK_ALERT }) <= 1
        /\ \A i \in NewAlertIdx :
              (alerts[i].pool_id = p /\ alerts[i].alert_type = HIGH_RISK_ALERT) =>
                  /\ alerts[i].risk_score = Cur(p).risk_score
                  /\ alerts[i].status = "active"

\* a score of exactly 65 has just produced a HIGH_RISK_ALERT
C11_Witness ==
    \E p \in last.evaluated :
        /\ Cur(p).risk_score = 65
        /\ Created(p, HIGH_RISK_ALERT)

\* C12: Absent dedup suppression, evaluate creates an EARLY_WARNING_ALERT
\* exactly when the assessment has an early_warning_score of at least 40 and a
\* risk_score of at least 20; never when risk_score < 20 or when the
\* assessment has no early_warning_score.
C12_EarlyWarningRule ==
    \A p \in last.evaluated :
        /\ Created(p, EARLY_WARNING_ALERT) <=>
              ( /\ Cur(p).early_warning_score # None
                /\ Cur(p).early_warning_score >= 40
                /\ Cur(p).risk_score >= 20
                /\ ~Suppressed(p, EARLY_WARNING_ALERT) )
        /\ Cur(p).risk_score < 20 => ~Created(p, EARLY_WARNING_ALERT)
        /\ Cur(p).early_warning_score = None => ~Created(p, EARLY_WARNING_ALERT)

\* an early-warning score of exactly 40 has fired, and in the same state an
\* assessment scoring below 20 with a high early-warning score created nothing
C12_Witness ==
    /\ \E p \in last.evaluated :
          /\ Cur(p).early_warning_score = 40
          /\ Created(p, EARLY_WARNING_ALERT)
    /\ \E p \in last.evaluated :
          /\ Cur(p).risk_score < 20
          /\ Cur(p).early_warning_score >= 40
          /\ ~Created(p, EARLY_WARNING_ALERT)
          /\ ~Suppressed(p, EARLY_WARNING_ALERT)

\* the persistent stores: snapshots, hourly history, risk history, alerts
Stores == <<snapshots, snapshot_features, snapshot_history, risk_history, alerts>>

\* C13: Simulation is stateless.  Every step of every simulation request
\* (accepted, rejected, failed or successful, alone or interleaved with other
\* simulations) leaves the snapshot store, the hourly history, the risk
\* history and the alert store unchanged, and the base feature snapshot the
\* request has read is the same after apply_overrides as before.
C13_SimulationStateless ==
    [][ \A t \in Threads :
          sim'[t] # sim[t] =>
              /\ UNCHANGED Stores
              /\ sim[t].pc \in {"predict_risk", "apply_overrides"} =>
                    sim'[t].base = sim[t].base ]_vars

\* a simulation whose overrides changed the features has answered while the
\* other thread's simulation is in progress and the stores are not empty
C13_Witness ==
    \E t, u \in Threads :
        /\ t # u
        /\ sim[t].status = 200
        /\ sim[t].simulated.features # sim[t].base.features
        /\ sim[t].base = get_latest_features(snapshot_features, sim[t].pool)
        /\ sim[u].pc \in {"predict_risk", "apply_overrides"}
        /\ risk_history # <<>>
        /\ alerts # <<>>

\* an override outside the documented bounds
OutOfBounds(q) ==
    \/ q.tvl_change_pct < -80 \/ q.tvl_change_pct > 80
    \/ q.volume_change_pct < -100 \/ q.volume_change_pct > 200
    \/ q.volatility_override # None
          /\ (q.volatility_override < 10 \/ q.volatility_override > 500)
    \/ q.reserve_imbalance_override # None
          /\ (q.reserve_imbalance_override < 0 \/ q.reserve_imbalance_override > 1000)

\* C14: A simulation request with an override outside its documented bounds
\* (tvl_change_pct outside [-80,80], volume_change_pct outside [-100,200],
\* volatility_override outside [0.01,0.5], reserve_imbalance_override outside
\* [0,1]) is answered with a validation failure: it never reaches
\* run_simulation, no features are simulated and no score is produced.
C14_OutOfBoundsRejected ==
    \A t \in Threads :
        OutOfBounds(sim[t].params) =>
            /\ sim[t].pc = "done"
            /\ sim[t].status = 422
            /\ sim[t].simulated = NoBase
            /\ sim[t].result = SimIdle.result

\* a volatility override of 0.6 has been answered 422
C14_Witness ==
    \E t \in Threads :
        /\ sim[t].params.volatility_override = 600
        /\ sim[t].status = 422

\* C15: For the same feature vector and the same Scorer probability the
\* simulation scoring path (predict_with_features) and the live scoring path
\* (predict_risk) give the same risk_score and risk_level.
C15_SameScoringAsLive ==
    \A t \in Threads :
        sim[t].status = 200 =>
            /\ sim[t].result.risk_score = predict_risk(sim[t].prob).risk_score
            /\ sim[t].result.risk_level = predict_risk(sim[t].prob).risk_level

\* C16: Severe-decline floor boost.  Every simulation that answers with a
\* result and whose tvl_change_pct is below -20 has a simulated risk_score of
\* at least 65, the level HIGH and alert_would_trigger true, whatever
\* probability the Scorer returned.
C16_SevereDeclineFloor ==
    \A t \in Threads :
        (sim[t].status = 200 /\ sim[t].params.tvl_change_pct < -20) =>
            /\ sim[t].result.risk_score >= 6500
            /\ sim[t].result.risk_level = "HIGH"
            /\ sim[t].alert_would_trigger

\* scenario C: -50 % TVL and +100 % volume on a pool scoring 20 (LOW), the
\* Scorer returning 0.2 for the simulated features
C16_Witness ==
    \E t \in Threads :
        /\ sim[t].status = 200
        /\ sim[t].params.tvl_change_pct = -50
        /\ sim[t].params.volume_change_pct = 100
        /\ sim[t].actual.risk_score = 2000 /\ sim[t].actual.risk_level = "LOW"
        /\ sim[t].prob = 20000
        /\ sim[t].result.risk_score >= 6500

\* the risk-history rows the last call appended
NewRows(p) == { i \in (last.hist_before + 1)..Len(risk_history) : risk_history[i].pool_id = p }

\* C17: Per-pool failure isolation in scoring.  After a predict_all_pools
\* cycle, a pool whose scoring failed has no new risk-history record and is
\* not in the returned results, and every other pool that has a snapshot has
\* exactly one new record and is in the results.
C17_ScoringFailureIsolated ==
    last.op = "predict_all" =>
        \A p \in snapshots :
            /\ p \in last.failed =>
                  /\ NewRows(p) = {}
                  /\ \A k \in 1..Len(last.results) : last.results[k] # p
            /\ p \notin last.failed =>
                  /\ Cardinality(NewRows(p)) = 1
                  /\ \E k \in 1..Len(last.results) : last.results[k] = p

\* the first pool of the cycle failed and the second was scored and stored
C17_Witness ==
    /\ last.op = "predict_all"
    /\ last.failed = {PoolOrder[1]}
    /\ NewRows(PoolOrder[1]) = {}
    /\ Cardinality(NewRows(PoolOrder[2])) = 1
    /\ last.results = <<PoolOrder[2]>>

\* C18: No per-pool failure aborts an alerting cycle.  After an
\* evaluate_all_alerts cycle every pool that has an assessment and whose own
\* evaluation did not fail has been evaluated: each of its rules that
\* triggers and is not dedup-suppressed has created its alert.
C18_EvaluationFailureIsolated ==
    last.op = "predict_all" =>
        \A p \in Pools :
            (PoolRows(risk_history, p) # {} /\ p \notin last.eval_failing) =>
                /\ p \in last.evaluated
                /\ \A ty \in AlertType :
                      (Triggered(p, ty) /\ ~Suppressed(p, ty)) => Created(p, ty)

\* C19: The risk history is append-only and its records immutable.  Every
\* step leaves the stored records as they are and only adds records after
\* them; a successful predict_and_store_risk adds exactly one record, of the
\* pool it scored.
C19_AppendOnly ==
    [][ /\ Len(risk_history') >= Len(risk_history)
        /\ \A i \in 1..Len(risk_history) : risk_history'[i] = risk_history[i]
        /\ last'.op = "trigger_prediction" =>
              /\ Len(risk_history') = Len(risk_history) + 1
              /\ risk_history'[Len(risk_history')].pool_id \in last'.evaluated
        /\ last'.op = "predict_failed" => risk_history' = risk_history
        /\ last'.op = "predict_all" =>
              Len(risk_history') = Len(risk_history) + Len(last'.results)
        /\ last'.op \in {"tick", "fetch"} => risk_history' = risk_history ]_vars

\* a pool that already had a record has been scored again: both records are
\* stored, the older one as it was
C19_Witness ==
    /\ last.op = "trigger_prediction"
    /\ last.hist_before >= 1
    /\ Len(risk_history) = last.hist_before + 1
    /\ \E p \in last.evaluated :
          /\ HasPrev(p)
          /\ Prev(p).risk_score # Cur(p).risk_score

\* no record at or before instant t was inserted, deleted or changed
OnlyLaterThan(t) ==
    { r \in TableRows(snapshot_history') : r.timestamp <= t }
        = { r \in TableRows(snapshot_history) : r.timestamp <= t }

\* rows 1..i of the pool's frame are the same before and after
OnlyRowsAfter(p, i) ==
    /\ i <= Len(PoolFrame(snapshot_history, p))
    /\ i <= Len(PoolFrame(snapshot_history', p))
    /\ SubSeq(PoolFrame(snapshot_history', p), 1, i)
          = SubSeq(PoolFrame(snapshot_history, p), 1, i)

\* the online features as of every instant ignore the later records
OnlineNoLeak ==
    \A p \in Pools, t \in Instants :
        OnlyLaterThan(t) =>
            compute_features(snapshot_history', p, t)
                = compute_features(snapshot_history, p, t)

\* every row of the batch frame ignores the rows after it
BatchNoLeak ==
    \A p \in Pools, i \in 1..Cardinality(FeatKeys) :
        OnlyRowsAfter(p, i) =>
            compute_features_from_df(PoolFrame(snapshot_history', p))[i]
                = compute_features_from_df(PoolFrame(snapshot_history, p))[i]

\* C20: No future leakage.  For every pool and instant t the features
\* computed as of t by compute_features, and row i of the frame computed by
\* compute_features_from_df, are the same before and after any insertion,
\* deletion or change of records later than t (of rows after row i).
C20_NoFutureLeakage == [][OnlineNoLeak /\ BatchNoLeak]_vars

\* rows lo..Len of the first pool's series are the same before and after
SameFrom(lo) ==
    /\ Len(tvl_series'[PoolOrder[1]]) = Len(tvl_series[PoolOrder[1]])
    /\ \A k \in lo..Len(tvl_series[PoolOrder[1]]) :
          tvl_series'[PoolOrder[1]][k] = tvl_series[PoolOrder[1]][k]

LabelsKept(i) ==
    create_forward_labels(tvl_series'[PoolOrder[1]])[i]
        = create_forward_labels(tvl_series[PoolOrder[1]])[i]

LiveFrames ==
    UNION { [1..n -> { SnapshotRow(ProtoData(PoolOrder[1], v), 0) : v \in SnapshotValues }] :
              n \in MIN_POINTS_6H..(WINDOW_6H + 1) }

\* the feature vector of every row of every such frame is within the bounds
LiveFeatureBounds ==
    \A df \in LiveFrames : \A i \in 1..Len(df) :
        /\ FeatureRow(df, i).reserve_imbalance \in 0..1000
        /\ FeatureRow(df, i).early_warning_score \in 0..100000

LevelMatches(level, c) ==
    /\ level = "LOW" <=> c < 3000
    /\ level = "MEDIUM" <=> (c >= 3000 /\ c < 6500)
    /\ level = "HIGH" <=> c >= 6500

C25_OneBackgroundTask ==
    Cardinality({ k \in 1..Len(background_tasks) : background_tasks[k].pc = "running" }) <= 1

\* an earlier alert that the claim says cannot suppress an alert of type ty
\* for pool p
CannotSuppress(i, p, ty) ==
    \/ alerts[i].pool_id # p
    \/ alerts[i].alert_type # ty
    \/ alerts[i].status = "resolved"
    \/ now - alerts[i].created_at > TicksPerHour

\* C26: Dedup suppression is scoped to (pool_id, alert_type) and to active
\* alerts.  When evaluate runs for a pool, a rule's condition holds and every
\* earlier alert is of another pool, of another type, resolved or older than
\* one hour, the alert is created.
C26_DedupScope ==
    \A p \in last.evaluated, ty \in AlertType :
        ( /\ Triggered(p, ty)
          /\ \A i \in OldAlertIdx : CannotSuppress(i, p, ty) ) => Created(p, ty)

\* an alert created within the hour of a resolved alert of its pool and type,
\* while the other pool holds an active alert of that type
C26_Witness ==
    \E p \in last.evaluated, ty \in AlertType :
        /\ Created(p, ty)
        /\ \E i \in OldAlertIdx :
              /\ alerts[i].pool_id = p /\ alerts[i].alert_type = ty
              /\ alerts[i].status = "resolved"
              /\ now - alerts[i].created_at <= TicksPerHour
        /\ \E i \in OldAlertIdx :
              /\ alerts[i].pool_id # p /\ alerts[i].alert_type = ty
              /\ alerts[i].status = "active"
              /\ now - alerts[i].created_at <= TicksPerHour

\* C2: Under every interleaving of the alert-evaluation entry points the same
\* pool is never evaluated concurrently, so there are never two active alerts
\* with the same (pool_id, alert_type) created less than one hour apart.
C2_NoDuplicateActiveAlerts ==
    \A i, j \in 1..Len(alerts) :
        ( /\ i < j
          /\ alerts[i].pool_id = alerts[j].pool_id
          /\ alerts[i].alert_type = alerts[j].alert_type
          /\ alerts[i].status = "active" /\ alerts[j].status = "active" )
        => alerts[j].created_at - alerts[i].created_at >= TicksPerHour

\* C3: The scoring/alerting job is guarded: at no time are two scoring or
\* alerting runs (compute_and_submit_risks, predict_all_pools followed by
\* evaluate_all_alerts) in progress at once.
C3_SingleScoringRun ==
    Cardinality({ t \in Threads :
        req[t].kind \in {"compute_and_submit_risks", "predict_all"} }) <= 1

\* C9: The previous assessment evaluate compares against is always the most
\* recent stored assessment of the pool produced strictly earlier than the
\* current one: never the current one itself, never a later one.
C9_PreviousIsStrictlyEarlier ==
    \A t \in Threads :
        req[t].pc \in {"check", "create"} =>
            LET earlier == { i \in 1..(req[t].cur - 1) :
                                risk_history[i].pool_id = req[t].pool }
            IN IF earlier = {}
               THEN req[t].prev = 0
               ELSE /\ req[t].prev \in earlier
                    /\ \A i \in earlier : i <= req[t].prev
\* C4: At most one collection run (scheduled fetch, scheduled hourly
\* collection, manual fetch, POST /timeseries/collect) is in progress at any
\* time; an invocation arriving meanwhile is skipped.
C4_SingleCollectionRun ==
    Cardinality({ t \in Threads : job[t].kind \in {"collect", "fetch"} }) <= 1

\* C5: Idempotent upsert.  snapshot_history never holds two rows for one
\* (pool_id, hour); after a collection has been committed, each pool of its
\* batch has exactly one row for that hour and the row holds the tvl, volume,
\* reserves and source of that (latest) write.
C5_IdempotentUpsert ==
    /\ \A a, b \in 1..Len(snapshot_history) :
          ( /\ snapshot_history[a].pool_id = snapshot_history[b].pool_id
            /\ snapshot_history[a].timestamp = snapshot_history[b].timestamp ) => a = b
    /\ committed.kind = "collect" =>
          \A k \in 1..Len(committed.batch) :
              LET e == committed.batch[k]
                  rows == { a \in 1..Len(snapshot_history) :
                              /\ snapshot_history[a].pool_id = e.pool_id
                              /\ snapshot_history[a].timestamp = committed.hour }
              IN /\ Cardinality(rows) = 1
                 /\ \A a \in rows :
                       /\ snapshot_history[a].tvl = e.tvl
                       /\ snapshot_history[a].volume_24h = e.volume_24h
                       /\ snapshot_history[a].reserve0 = e.reserve0
                       /\ snapshot_history[a].reserve1 = e.reserve1
                       /\ snapshot_history[a].source = e.data_source

\* a second collection of the same hour has replaced different stored values
C5_Witness ==
    /\ committed.kind = "collect"
    /\ committed.replaced # {}
    /\ Len(snapshot_history) = Cardinality(Pools)

\* C27: a crash_prone pool generated with force_current_risk_state=True ends,
\* for every outcome of the random choices, with the regime of its last
\* snapshot in pre_crash or crash.
C27_ForcedEndsInRisk ==
    (gen.pc = "done" /\ gen.force_current_risk_state)
        => gen.final_regime \in {"pre_crash", "crash"}

\* C28: a transaction whose receipt reports failure is stored as 'failed' and
\* submit_risk raises: no transaction hash that submit_risk returned to the
\* scheduler, and that the scheduler counted as submitted, belongs to a
\* submission stored as 'failed'.
C28_FailedNotCounted ==
    \A tx \in chain.returned : chain.risk_submissions[tx].status # "failed"

\* C29: when the batch of a collection run contains the same pool_id twice,
\* only the duplicate entry is skipped: at the end of the run every pool of
\* the batch has a persisted record for the run's hour.
BatchPools(b) == { b[k].pool_id : k \in 1..Len(b) }

HasDuplicate(b) == \E k, m \in 1..Len(b) : k # m /\ b[k].pool_id = b[m].pool_id

RunEnds(t) == job[t].pc = "stage" /\ job'[t].pc = "idle"

Holds(t, l) == job[t].pc # "idle" /\ job[t].lock = l

GuardHeldOnlyWhileRunning ==
    \A l \in LockNames : locks[l] => \E t \in Threads : Holds(t, l)

\* a step in which an invocation of thread t found its guard taken and
\* returned []
SkipStep ==
    \E t \in Threads :
        job[t].pc = "idle" /\ job[t].result # "skipped" /\ job'[t] = JobIdle("skipped")

C30_GuardAlwaysReleased ==
    [][/\ GuardHeldOnlyWhileRunning'
       /\ SkipStep => \E u \in Threads, l \in LockNames : Holds(u, l) /\ locks[l]]_vars

\* the only invocation so far ended through an exception (nothing was
\* fetched or stored), its guard is free again, and the next invocation
\* of the same thread has acquired the guard
C30_Witness ==
    \E t \in Threads :
        /\ started = 2
        /\ \A u \in Threads \ {t} : job[u] = JobIdle("none")
        /\ snapshots = {}
        /\ snapshot_history = <<>>
        /\ job[t].pc = "fetching"
        /\ locks[SCHEDULER_FETCH_LOCK]

====
